---- MODULE Spec2Model ----
(***************************************************************************)
(* A model of the snail-dancer validator core: the Proof-of-History clock  *)
(* (ProofOfHistory), the block pipeline (BlockProducer), the consensus     *)
(* engine (SimplifiedConsensus) and the node coordinator (ValidatorNode).  *)
(*                                                                         *)
(* Each component has its own specification over the shared variables:     *)
(*   SpecPoH        the clock driven by start/stop/addEvent and its timer  *)
(*   SpecChain      a BlockProducer driven by createBlock/addBlock         *)
(*   SpecEpochs     a SimplifiedConsensus: validators, blocks, slots       *)
(*   SpecNode       a ValidatorNode handling inbound messages              *)
(*   SpecSchedule   the leader schedule as a function of its inputs        *)
(*   SpecVoting     a SimplifiedConsensus: votes, lockouts, stake          *)
(*   SpecCluster    a ValidatorNode: announcements, blocks, production     *)
(*   SpecVerify     a BlockProducer validating signed blocks               *)
(*   SpecLedger     a TransactionProcessor: accounts and transfers         *)
(*   SpecFork       a SimplifiedConsensus choosing among voted blocks      *)
(*   SpecDelivery   a node given two linked blocks in any order            *)
(*   SpecAccept     a BlockProducer given blocks of any make by addBlock   *)
(*   SpecLeader     a SimplifiedConsensus asked for the leaders of slots   *)
(*   SpecStop       a node without peers that is started and stopped       *)
(*   SpecPool       a leader producing blocks from its transaction pool    *)
(*                                                                         *)
(* Strings and digests.  SHA-256 is taken to be collision free: the digest *)
(* of an input is the one-element tuple holding that input, so two digests *)
(* are equal exactly when their inputs are.  A string the code builds by   *)
(* concatenating fixed-width hex digests and decimal numbers is held as    *)
(* the record of its parts (the parts can be read back from the string).   *)
(* A literal string that is compared with digests is Str(s).               *)
(***************************************************************************)
EXTENDS Integers, Sequences, FiniteSets, TLC

VARIABLES
  \* ProofOfHistory
  currentHash,    \* string: the seed, then the digest of the last entry
  count,          \* number of the next entry
  isRunning,      \* boolean
  tickInterval,   \* the interval handle start() stored, NoTimer for null
  entries,        \* retained PohEntry records, oldest first
  eventQueue,     \* PohEvent records waiting for the next tick
  liveTimers,     \* the interval timers created and not yet cleared
  timerSeq,       \* number of interval timers created so far
  submitted,      \* number of addEvent calls so far
  \* BlockProducer
  blockchain,     \* the accepted blocks, oldest first
  created,        \* <<b>>: the block the last createBlock returned, else <<>>
  lastCall,       \* the BlockProducer operation called last
  addResult,      \* what the last addBlock returned
  \* SimplifiedConsensus
  validators,     \* Map publicKey -> ValidatorInfo
  votes,          \* Map blockHash -> Vote[]
  lockouts,       \* Map publicKey -> Map slot -> expiry slot
  consensusState, \* currentSlot, currentEpoch, leaderSchedule, ...
  leaderSchedules,\* Map epoch -> LeaderSchedule
  epochBlocks,    \* Map epoch -> Block[]
  prng,           \* first four bytes of the shuffle digests, as far as read
  given,          \* history: the blocks passed to consensus.addBlock, in order
  \* ValidatorNode and its P2PNetwork
  nodeRunning,    \* ValidatorNode.isRunning
  handlers,       \* the message handlers started and not finished, in the
                  \* order in which their next continuation runs
  received,       \* number of frames read from peer sockets so far
  delivered,      \* the linked blocks read from peer sockets so far
  timers,         \* the node's start-up and production timers that are set
  sent,           \* the messages broadcast to the peers, in order
  access,         \* history: the last handler step, whether it read or wrote
                  \* chain or consensus state, and the handlers then unfinished
  isReadyForConsensus, \* ValidatorNode.isReadyForConsensus
  leaderSchedule, \* ValidatorNode.leaderSchedule: public keys
  \* calls of functions on arguments of their own
  call,           \* the call made, one in a behaviour: its arguments and
                  \* what it returned
  \* TransactionProcessor
  accounts,       \* Map publicKey -> Account
  transactionPool,\* Transaction[]
  processedTransactions, \* Set of transaction ids
  applied         \* history: the transactions processTransaction returned
                  \* true for, in order

pohVars == <<currentHash, count, isRunning, tickInterval, entries, eventQueue,
             liveTimers, timerSeq, submitted>>

chainVars == <<blockchain, created, lastCall, addResult>>

consVars == <<validators, votes, lockouts, consensusState, leaderSchedules,
              epochBlocks, prng, given>>

readyVars == <<isReadyForConsensus, leaderSchedule>>

nodeVars == <<nodeRunning, handlers, received, delivered, timers, sent, access, readyVars>>

callVars == <<call>>

txVars == <<accounts, transactionPool, processedTransactions, applied>>

vars == <<pohVars, chainVars, consVars, nodeVars, callVars, txVars>>

-----------------------------------------------------------------------------
(* Bounds of the model *)

\* ticks the clock's timer may fire
MaxTicks == 4
\* calls of addEvent
MaxEvents == 2
\* calls of start() that create a timer
MaxStarts == 2
\* entries retained before the buffer is trimmed to its newer half
\* (10000 and 5000 in the source; scaled down, the halving kept)
RetainLimit == 3
\* maxTransactionsPerBlock given to the BlockProducer constructor
\* (its default is 100; a smaller configured maximum is used here)
MaxTxPerBlock == 2
\* blocks the chain may hold
MaxChain == 3
\* last epoch whose slots are given to updateSlot
MaxEpoch == 2
\* frames a node reads from its peer sockets
MaxFrames == 3
\* calls of processTransaction
MaxProcessed == 2
\* calls of addVote
MaxVotes == 2
\* last slot given to updateSlot while votes are cast
MaxSlot == 1
\* active validators a schedule is generated for
MaxValidators == 17
\* validators up to which every outcome of the shuffle is tried
MaxFullShuffle == 4
\* active validators of the two engines whose transitions are compared
MaxPairValidators == 2

-----------------------------------------------------------------------------
(* Program constants *)

\* EPOCH_CONSTANTS
SLOTS_PER_EPOCH == 64
GENESIS_EPOCH_LEADER_ROTATION_SLOTS == 4

-----------------------------------------------------------------------------
(* Hashing and strings *)

Sha256(input) == <<input>>

Str(s) == <<[literal |-> s]>>

NoTimer == 0

\* new ProofOfHistory('test-seed')
Seed == Str("test-seed")

\* The events createEvent can hand out: hash = sha256(JSON{type, data, timestamp})
createEvent(type, data) ==
  [type |-> type, data |-> data,
   hash |-> Sha256([evType |-> type, evData |-> data])]

PohEvents == {createEvent("transaction", "tx-a"), createEvent("block", "blk-b")}

\* events.map(e => e.hash).join('')
EventsData(events) == [i \in 1..Len(events) |-> events[i].hash]

\* the string  prevHash + n.toString() + eventsData
PohHashInput(prevHash, n, events) ==
  [prev |-> prevHash, num |-> n, eventsData |-> EventsData(events)]

-----------------------------------------------------------------------------
(* ProofOfHistory *)

\* a generateNextEntry that leaves the events out of the entry
generateNextEntry_NoEvents(events) ==
  [hash   |-> Sha256(PohHashInput(currentHash, count, <<>>)),
   count  |-> count,
   events |-> <<>>]

\* generateNextEntry: the entry made from the clock's current hash and count
generateNextEntry(events) ==
  [hash   |-> Sha256(PohHashInput(currentHash, count, events)),
   count  |-> count,
   events |-> events]

\* a slice that keeps the oldest n entries
SliceLast_Oldest(s, n) ==
  IF Len(s) <= n THEN s ELSE SubSeq(s, 1, n)

\* entries.slice(-n)
SliceLast(s, n) ==
  IF Len(s) <= n THEN s ELSE SubSeq(s, Len(s) - n + 1, Len(s))

\* getEntries(fromCount, limit): filter by count, then the first `limit`
getEntries(fromCount, limit) ==
  LET filtered == SelectSeq(entries, LAMBDA e : e.count >= fromCount)
  IN  SubSeq(filtered, 1, IF limit < Len(filtered) THEN limit ELSE Len(filtered))

\* verifySequence(entries)
verifySequence(es) ==
  \A i \in 2..Len(es) :
    LET prev    == es[i - 1]
        current == es[i]
    IN  /\ current.count = prev.count + 1
        /\ current.hash = Sha256(PohHashInput(prev.hash, prev.count, current.events))

\* start(): no-op while running, else a new interval timer
PohStart ==
  /\ UNCHANGED <<chainVars, consVars, nodeVars, callVars, txVars>>
  /\ timerSeq < MaxStarts
  /\ IF isRunning
     THEN UNCHANGED pohVars
     ELSE /\ isRunning' = TRUE
          /\ timerSeq' = timerSeq + 1
          /\ tickInterval' = timerSeq + 1
          /\ liveTimers' = liveTimers \cup {timerSeq + 1}
          /\ UNCHANGED <<currentHash, count, entries, eventQueue, submitted>>

\* a stop() that leaves the interval running
PohStop_TimerKept ==
  /\ UNCHANGED <<chainVars, consVars, nodeVars, callVars, txVars>>
  /\ IF ~isRunning
     THEN UNCHANGED pohVars
     ELSE /\ isRunning' = FALSE
          /\ tickInterval' = NoTimer
          /\ UNCHANGED <<currentHash, count, entries, eventQueue, timerSeq,
                         submitted, liveTimers>>

\* stop(): no-op while stopped, else clears the stored interval
PohStop ==
  /\ UNCHANGED <<chainVars, consVars, nodeVars, callVars, txVars>>
  /\ IF ~isRunning
     THEN UNCHANGED pohVars
     ELSE /\ isRunning' = FALSE
          /\ tickInterval' = NoTimer
          /\ liveTimers' = IF tickInterval # NoTimer
                           THEN liveTimers \ {tickInterval} ELSE liveTimers
          /\ UNCHANGED <<currentHash, count, entries, eventQueue, timerSeq,
                         submitted>>

\* tick(), called by a live interval timer
PohTick ==
  /\ UNCHANGED <<chainVars, consVars, nodeVars, callVars, txVars>>
  /\ liveTimers # {}
  /\ count < MaxTicks
  /\ LET events == eventQueue
         entry  == generateNextEntry(events)
         pushed == Append(entries, entry)
     IN  /\ eventQueue' = <<>>
         /\ currentHash' = entry.hash
         /\ count' = count + 1
         /\ entries' = IF Len(pushed) > RetainLimit
                       THEN SliceLast(pushed, RetainLimit \div 2)
                       ELSE pushed
  /\ UNCHANGED <<isRunning, tickInterval, liveTimers, timerSeq, submitted>>

\* addEvent(event)
PohAddEvent(event) ==
  /\ UNCHANGED <<chainVars, consVars, nodeVars, callVars, txVars>>
  /\ submitted < MaxEvents
  /\ submitted' = submitted + 1
  /\ eventQueue' = Append(eventQueue, event)
  /\ UNCHANGED <<currentHash, count, isRunning, tickInterval, entries,
                 liveTimers, timerSeq>>

PohNext ==
  \/ PohStart
  \/ PohStop
  \/ PohTick
  \/ \E event \in PohEvents : PohAddEvent(event)


-----------------------------------------------------------------------------
(* Keys and signatures (KeyPair, SignatureUtils) *)

\* public-key strings that are 64 hex digits (KeyPair.publicKeyString)
HexKeys == {"pk-a", "pk-b"}

\* the public keys of the accounts that send the pooled transfers
SenderKeys == <<"pk-a", "pk-b", "pk-c", "pk-d", "pk-e">>

\* Buffer.from(s, 'hex').length for a public-key string: 32 for a 64-digit hex
\* string; a name such as 'validator1' has no leading hex digit pair
HexByteLength(s) ==
  IF s \in HexKeys \/ (\E i \in DOMAIN SenderKeys : SenderKeys[i] = s) THEN 32 ELSE 0

\* SignatureUtils.signMessage: hex of sha256(privateKey || sha256(message)),
\* a string of 64 hex digits
signMessage(message, privateKey) ==
  [hex   |-> Sha256([key |-> privateKey, msg |-> Sha256(message)]),
   bytes |-> 32]

\* SignatureUtils.verifySignature -> KeyPair.verify: only the two lengths
verifySignature(message, signature, publicKey) ==
  signature.bytes = 32 /\ HexByteLength(publicKey) = 32

-----------------------------------------------------------------------------
(* BlockProducer *)

\* '0'.repeat(64)
ZeroHash == Str("0000...0000")

\* an optional argument left out
Undefined == <<>>

\* x || y on strings: undefined and '' are falsy
OrElse(x, y) == IF x = Undefined \/ x = Str("") THEN y ELSE x

\* calculateBlockHash: sha256 of the JSON of the eight hashed fields
calculateBlockHash(b) ==
  Sha256([previousHash |-> b.previousHash, pohHash |-> b.pohHash,
          pohCount |-> b.pohCount, transactions |-> b.transactions,
          timestamp |-> b.timestamp, leader |-> b.leader,
          slot |-> b.slot, epoch |-> b.epoch])

getLatestBlock == blockchain[Len(blockchain)]

getLatestBlockHash ==
  IF Len(blockchain) > 0 THEN getLatestBlock.hash ELSE ZeroHash

\* a slice that keeps one transaction too many
SliceFirst_OffByOne(s, n) == IF Len(s) <= n + 1 THEN s ELSE SubSeq(s, 1, n + 1)

\* transactions.slice(0, n)
SliceFirst(s, n) == IF Len(s) <= n THEN s ELSE SubSeq(s, 1, n)

\* createBlock: the block returned, `now` being Date.now()
createBlock(transactions, pohHash, pohCount, leader, privateKey, slot, epoch, previousHash, now) ==
  LET blockData ==
        [previousHash |-> OrElse(previousHash, getLatestBlockHash),
         pohHash      |-> pohHash,
         pohCount     |-> pohCount,
         transactions |-> SliceFirst(transactions, MaxTxPerBlock),
         timestamp    |-> now,
         leader       |-> leader,
         slot         |-> slot,
         epoch        |-> epoch]
      hash == calculateBlockHash(blockData)
  IN  [previousHash |-> blockData.previousHash,
       pohHash      |-> pohHash,
       pohCount     |-> pohCount,
       transactions |-> blockData.transactions,
       timestamp    |-> now,
       leader       |-> leader,
       slot         |-> slot,
       epoch        |-> epoch,
       hash         |-> hash,
       signature    |-> signMessage(hash, privateKey)]

\* validateBlock(block), against the current chain
validateBlock(block) ==
  /\ block.hash = calculateBlockHash(block)
  /\ verifySignature(block.hash, block.signature, block.leader)
  /\ Len(blockchain) > 0 => block.previousHash = getLatestBlock.hash
  /\ Len(block.transactions) <= MaxTxPerBlock

\* validateBlockSync that forgets the linkage check
validateBlockSync_NoLink(block) ==
  block.hash = calculateBlockHash(block)

\* validateBlockSync that forgets to recompute the hash
validateBlockSync_NoHash(block) ==
  Len(blockchain) > 0 => block.previousHash = getLatestBlock.hash

\* validateBlockSync(block): hash integrity and linkage only
validateBlockSync(block) ==
  /\ block.hash = calculateBlockHash(block)
  /\ Len(blockchain) > 0 => block.previousHash = getLatestBlock.hash

\* addBlock that asks validateBlock for its full verdict
addBlockAccepts_Validated(block) == Len(blockchain) = 0 \/ validateBlock(block)

\* addBlock(block): whether the block is appended
addBlockAccepts(block) == Len(blockchain) = 0 \/ validateBlockSync(block)

\* isValidChain that checks the links only
isValidChain_LinksOnly(chain) ==
  \A i \in 2..Len(chain) : chain[i].previousHash = chain[i - 1].hash

\* isValidChain, on a chain given as argument
isValidChain(chain) ==
  \A i \in 2..Len(chain) :
    /\ chain[i].previousHash = chain[i - 1].hash
    /\ chain[i].hash = calculateBlockHash(chain[i])

\* the PoH entries a caller reads from an eventless clock: (hash, count)
RECURSIVE PohSampleHash(_)
PohSampleHash(n) ==
  Sha256(PohHashInput(IF n = 0 THEN Seed ELSE PohSampleHash(n - 1), n, <<>>))

\* the transaction lists handed to createBlock (opaque transactions): none,
\* and one more than the maximum
TxLists == {[i \in 1..n |-> "tx"] : n \in {0, MaxTxPerBlock + 1}}

\* leader arguments: a KeyPair's public key string, and a plain name
Leaders == {"pk-a", "validator1"}

\* the PoH counts handed to createBlock
PohCounts == {0}

\* values of Date.now()
Times == {1}

PrivateKeys == {"sk-a"}

\* explicit previousHash arguments: left out, '', the zero hash, or the hash
\* of any accepted block
PreviousHashArgs ==
  {Undefined, Str(""), ZeroHash} \cup {blockchain[i].hash : i \in 1..Len(blockchain)}

\* a call of createBlock
ChainCreateBlock(transactions, pohCount, leader, privateKey, slot, previousHash, now) ==
  /\ created' = <<createBlock(transactions, PohSampleHash(pohCount), pohCount,
                              leader, privateKey, slot, 0, previousHash, now)>>
  /\ lastCall' = "createBlock"
  /\ UNCHANGED <<blockchain, addResult>>
  /\ UNCHANGED <<pohVars, consVars, nodeVars, callVars, txVars>>

\* createGenesisBlock(leader, privateKey)
ChainCreateGenesisBlock(leader, privateKey, now) ==
  /\ created' = <<createBlock(<<>>, ZeroHash, 0, leader, privateKey, 0, 0,
                              ZeroHash, now)>>
  /\ lastCall' = "createBlock"
  /\ UNCHANGED <<blockchain, addResult>>
  /\ UNCHANGED <<pohVars, consVars, nodeVars, callVars, txVars>>

\* blocks given to addBlock: the created block, or a copy of it altered after
\* it was hashed and signed
Altered(b) ==
  {b,
   [b EXCEPT !.hash = Str("forged")],
   [b EXCEPT !.previousHash = Str("forged")],
   [b EXCEPT !.pohCount = b.pohCount + 1]}

\* a call of addBlock(block)
ChainAddBlock(block) ==
  /\ Len(blockchain) < MaxChain
  /\ lastCall' = "addBlock"
  /\ addResult' = addBlockAccepts(block)
  /\ blockchain' = IF addBlockAccepts(block)
                   THEN Append(blockchain, block) ELSE blockchain
  /\ UNCHANGED created
  /\ UNCHANGED <<pohVars, consVars, nodeVars, callVars, txVars>>

ChainNext ==
  \/ \E transactions \in TxLists, pohCount \in PohCounts, leader \in Leaders,
        privateKey \in PrivateKeys, previousHash \in PreviousHashArgs,
        now \in Times :
       ChainCreateBlock(transactions, pohCount, leader, privateKey,
                        Len(blockchain), previousHash, now)
  \/ \E leader \in Leaders, privateKey \in PrivateKeys, now \in Times :
       ChainCreateGenesisBlock(leader, privateKey, now)
  \/ \E i \in 1..Len(created) : \E block \in Altered(created[i]) :
       ChainAddBlock(block)

-----------------------------------------------------------------------------
(* SimplifiedConsensus: maps *)

\* Map.has / Map.get / Map.set / Map.delete on a function used as a Map
Has(map, key) == key \in DOMAIN map

MapSet(map, key, value) ==
  [k \in DOMAIN map \cup {key} |-> IF k = key THEN value ELSE map[k]]

MapDelete(map, key) == [k \in DOMAIN map \ {key} |-> map[k]]

\* the public keys of the model, in localeCompare order
KeyOrder == <<"pk-a", "pk-b", "pk-c", "validator1">>

\* keys.sort(localeCompare): the keys of S in KeyOrder
RECURSIVE SortedFrom(_, _)
SortedFrom(S, i) ==
  IF i > Len(KeyOrder) THEN <<>>
  ELSE (IF KeyOrder[i] \in S THEN <<KeyOrder[i]>> ELSE <<>>) \o SortedFrom(S, i + 1)

SortKeys(S) == SortedFrom(S, 1)

-----------------------------------------------------------------------------
(* SimplifiedConsensus: epochs and leader schedules *)

getEpochFromSlot(slot) == slot \div SLOTS_PER_EPOCH

getSlotInEpoch(slot) == slot % SLOTS_PER_EPOCH

\* getActiveValidators, as the set of their public keys
getActiveValidators == {pk \in DOMAIN validators : validators[pk].isActive}

\* a swap that copies s[j] to s[i] and loses s[i]
Swap_Copy(s, i, j) == [s EXCEPT ![i] = s[j]]

\* [s[i], s[j]] = [s[j], s[i]] on 1-based positions
Swap(s, i, j) == [s EXCEPT ![i] = s[j], ![j] = s[i]]

\* shuffleValidators: Fisher-Yates from the last index down to 1; r[i] is
\* readUInt32BE(0) % (i + 1) of sha256(sha256(seed) || i), indices 0-based
RECURSIVE ShuffleFrom(_, _, _)
ShuffleFrom(s, i, r) ==
  IF i < 1 THEN s ELSE ShuffleFrom(Swap(s, i + 1, r[i] + 1), i - 1, r)

shuffleValidators(sorted, r) == ShuffleFrom(sorted, Len(sorted) - 1, r)

\* a schedule whose rotation loop runs once too often (rotation <= totalRotations)
generateEqualDistributionSchedule_ExtraRotation(sorted, r) ==
  LET shuffled == shuffleValidators(sorted, r)
      n == Len(shuffled)
  IN  [k \in 1..(SLOTS_PER_EPOCH + 4) |-> shuffled[(((k - 1) \div 4) % n) + 1]]

\* generateEqualDistributionSchedule(validators, seed)
generateEqualDistributionSchedule(sorted, r) ==
  LET slotsPerRotation == 4
      totalSlots == SLOTS_PER_EPOCH
      totalRotations == totalSlots \div slotsPerRotation
      shuffled == shuffleValidators(sorted, r)
      n == Len(shuffled)
      rotations == [k \in 1..(totalRotations * slotsPerRotation) |->
                      shuffled[(((k - 1) \div slotsPerRotation) % n) + 1]]
      remainingSlots == totalSlots - Len(rotations)
      remainder == [i \in 1..remainingSlots |-> shuffled[((i - 1) % n) + 1]]
  IN  rotations \o remainder

\* generateLeaderSchedule(epoch, seed) for epoch > 0, the only epochs
\* transitionToNextEpoch asks for
generateLeaderSchedule(epoch, r) ==
  IF getActiveValidators = {} THEN <<>>
  ELSE generateEqualDistributionSchedule(SortKeys(getActiveValidators), r)

\* calculateEpochFinalHash(epoch), on the epoch blocks eb
calculateEpochFinalHashIn(eb, epoch) ==
  LET blocks == IF Has(eb, epoch) THEN eb[epoch] ELSE <<>>
  IN  IF Len(blocks) = 0
      THEN Sha256([emptyEpoch |-> epoch])
      ELSE Sha256([joined |-> [i \in 1..Len(blocks) |-> blocks[i].hash]])

\* calculateEpochFinalHash(epoch)
calculateEpochFinalHash(epoch) == calculateEpochFinalHashIn(epochBlocks, epoch)

\* the bytes the shuffle reads for `seed` with n validators: one value in
\* 0..i for each index i in 1..n-1, equal to what was read before for the
\* same seed and index
ShuffleDraws(seed, n) ==
  {r \in [1..(n - 1) -> 0..(n - 1)] :
     \A i \in 1..(n - 1) :
       /\ r[i] <= i
       /\ Has(prng, <<seed, i>>) => r[i] = prng[<<seed, i>>]}

\* cleanupExpiredLockouts that keeps an entry at the slot of its expiry
cleanupExpiredLockouts_KeptAtExpiry(slot) ==
  [pk \in DOMAIN lockouts |->
     [sl \in {x \in DOMAIN lockouts[pk] : slot <= lockouts[pk][x]} |-> lockouts[pk][sl]]]

\* cleanupExpiredLockouts at slot `slot`
cleanupExpiredLockouts(slot) ==
  [pk \in DOMAIN lockouts |->
     [sl \in {x \in DOMAIN lockouts[pk] : slot < lockouts[pk][x]} |-> lockouts[pk][sl]]]

\* addValidator(validator)
ConsAddValidator(publicKey, stake, isActive) ==
  /\ validators' = MapSet(validators, publicKey,
                          [publicKey |-> publicKey, stake |-> stake, isActive |-> isActive])
  /\ lockouts' = IF Has(lockouts, publicKey) THEN lockouts
                 ELSE MapSet(lockouts, publicKey, <<>>)
  /\ UNCHANGED <<votes, consensusState, leaderSchedules, epochBlocks, prng, given>>
  /\ UNCHANGED <<pohVars, chainVars, nodeVars, callVars, txVars>>

\* removeValidator(publicKey)
ConsRemoveValidator(publicKey) ==
  /\ validators' = MapDelete(validators, publicKey)
  /\ lockouts' = MapDelete(lockouts, publicKey)
  /\ UNCHANGED <<votes, consensusState, leaderSchedules, epochBlocks, prng, given>>
  /\ UNCHANGED <<pohVars, chainVars, nodeVars, callVars, txVars>>

\* addBlock(block) on the epoch blocks eb: the epoch blocks afterwards
addBlockIn(eb, block) ==
  LET epoch == getEpochFromSlot(block.slot)
      have  == IF Has(eb, epoch) THEN eb[epoch] ELSE <<>>
  IN  MapSet(eb, epoch, Append(have, block))

\* the consensus engine's addBlock(block)
ConsAddBlock(block) ==
  /\ given' = Append(given, block)
  /\ epochBlocks' = addBlockIn(epochBlocks, block)
  /\ UNCHANGED <<validators, votes, lockouts, consensusState, leaderSchedules, prng>>
  /\ UNCHANGED <<pohVars, chainVars, nodeVars, callVars, txVars>>

\* the shuffle bytes updateSlot(slot) reads on the epoch blocks eb: those of
\* the transition's seed, none without a transition
updateSlotDraws(slot, eb) ==
  IF getEpochFromSlot(slot) > consensusState.currentEpoch
  THEN ShuffleDraws(calculateEpochFinalHashIn(eb, consensusState.currentEpoch),
                    Cardinality(getActiveValidators))
  ELSE {<<>>}

\* updateSlot(slot) on the epoch blocks eb, with transitionToNextEpoch when
\* the slot's epoch is ahead of the current epoch: the fields afterwards
updateSlot(slot, eb, r) ==
  LET previousEpoch == consensusState.currentEpoch
      newEpoch == getEpochFromSlot(slot)
      nextEpoch == previousEpoch + 1
      epochFinalHash == calculateEpochFinalHashIn(eb, previousEpoch)
      n == Cardinality(getActiveValidators)
      nextSchedule == generateLeaderSchedule(nextEpoch, r)
  IN  IF newEpoch > previousEpoch
      THEN [consensusState |->
              [currentSlot |-> slot, currentEpoch |-> nextEpoch,
               leaderSchedule |-> nextSchedule, epochStartSlot |-> slot,
               epochFinalHash |-> epochFinalHash],
            leaderSchedules |->
              MapSet(leaderSchedules, nextEpoch,
                     [epoch |-> nextEpoch, schedule |-> nextSchedule,
                      seed |-> epochFinalHash]),
            epochBlocks |-> MapSet(eb, nextEpoch, <<>>),
            prng |-> [q \in DOMAIN prng \cup {<<epochFinalHash, i>> : i \in 1..(n - 1)} |->
                        IF Has(prng, q) THEN prng[q] ELSE r[q[2]]]]
      ELSE [consensusState |-> [consensusState EXCEPT !.currentSlot = slot],
            leaderSchedules |-> leaderSchedules,
            epochBlocks |-> eb,
            prng |-> prng]

\* a call of updateSlot(slot), cleanupExpiredLockouts included
ConsUpdateSlot(slot) ==
  /\ \E r \in updateSlotDraws(slot, epochBlocks) :
       LET u == updateSlot(slot, epochBlocks, r)
       IN  /\ consensusState' = u.consensusState
           /\ leaderSchedules' = u.leaderSchedules
           /\ epochBlocks' = u.epochBlocks
           /\ prng' = u.prng
  /\ lockouts' = cleanupExpiredLockouts(slot)
  /\ UNCHANGED <<validators, votes, given>>
  /\ UNCHANGED <<pohVars, chainVars, nodeVars, callVars, txVars>>

\* public keys of the validators announced to the engine
ValidatorKeys == {"pk-a", "pk-b"}

\* the slots given to updateSlot: the first slot of each epoch
SlotInputs == {e * SLOTS_PER_EPOCH : e \in 0..MaxEpoch}

\* the slots of the blocks given to addBlock, which arrive in slot order: one
\* of epoch 0, the first two of epoch 1
BlockSlots == {1, SLOTS_PER_EPOCH, SLOTS_PER_EPOCH + 1}

\* the slots of BlockSlots after those of the blocks already given
LaterBlockSlots ==
  {slot \in BlockSlots : \A i \in 1..Len(given) : given[i].slot < slot}

\* the block a leader produces for `slot` (no transactions)
BlockForSlot(slot, leader) ==
  createBlock(<<>>, PohSampleHash(0), 0, leader, "sk-a", slot,
              getEpochFromSlot(slot), ZeroHash, 1)

EpochsNext ==
  \/ \E publicKey \in ValidatorKeys, isActive \in BOOLEAN :
       ConsAddValidator(publicKey, 100, isActive)
  \/ \E publicKey \in ValidatorKeys : ConsRemoveValidator(publicKey)
  \/ \E slot \in LaterBlockSlots : ConsAddBlock(BlockForSlot(slot, "pk-a"))
  \/ \E slot \in SlotInputs : ConsUpdateSlot(slot)

-----------------------------------------------------------------------------
(* SimplifiedConsensus: votes and lockouts *)

\* a canVote that tolerates expiries three slots ahead
canVoteIn_ThreeSlots(lk, currentSlot, validatorPublicKey) ==
  IF ~Has(lk, validatorPublicKey) \/ DOMAIN lk[validatorPublicKey] = {}
  THEN TRUE
  ELSE \A slot \in DOMAIN lk[validatorPublicKey] :
         LET lockoutExpiry == lk[validatorPublicKey][slot]
         IN  ~(currentSlot < lockoutExpiry /\ lockoutExpiry - currentSlot > 3)

\* canVote(validatorPublicKey, blockHash) on the lockout tables lk at slot
\* currentSlot
canVoteIn(lk, currentSlot, validatorPublicKey) ==
  IF ~Has(lk, validatorPublicKey) \/ DOMAIN lk[validatorPublicKey] = {}
  THEN TRUE
  ELSE \A slot \in DOMAIN lk[validatorPublicKey] :
         LET lockoutExpiry == lk[validatorPublicKey][slot]
         IN  ~(currentSlot < lockoutExpiry /\ lockoutExpiry - currentSlot > 2)

\* canVote(validatorPublicKey, blockHash)
canVote(validatorPublicKey, blockHash) ==
  canVoteIn(lockouts, consensusState.currentSlot, validatorPublicKey)

\* a calculateLockout that does not add one to the count of recent votes
calculateLockoutIn_NoIncrement(lk, currentSlot, validatorPublicKey) ==
  IF ~Has(lk, validatorPublicKey) \/ DOMAIN lk[validatorPublicKey] = {}
  THEN 1
  ELSE LET recentVotes == {slot \in DOMAIN lk[validatorPublicKey] :
                             lk[validatorPublicKey][slot] > currentSlot}
       IN  IF recentVotes = {} THEN 1
           ELSE IF Cardinality(recentVotes) < 4
                THEN Cardinality(recentVotes) ELSE 4

\* calculateLockout(validatorPublicKey) on the lockout tables lk at slot
\* currentSlot
calculateLockoutIn(lk, currentSlot, validatorPublicKey) ==
  IF ~Has(lk, validatorPublicKey) \/ DOMAIN lk[validatorPublicKey] = {}
  THEN 1
  ELSE LET recentVotes == {slot \in DOMAIN lk[validatorPublicKey] :
                             lk[validatorPublicKey][slot] > currentSlot}
       IN  IF recentVotes = {} THEN 1
           ELSE IF Cardinality(recentVotes) + 1 < 4
                THEN Cardinality(recentVotes) + 1 ELSE 4

\* validateVoteSync(vote), the condition under which addVote stores the vote
validateVoteSync(vote) ==
  /\ Has(validators, vote.validator)
  /\ validators[vote.validator].isActive
  /\ canVote(vote.validator, vote.blockHash)

\* an addVote that always pushes the vote
addVoteIn_Push(vs, vote) ==
  MapSet(vs, vote.blockHash,
         Append(IF Has(vs, vote.blockHash) THEN vs[vote.blockHash] ELSE <<>>, vote))

\* the votes table after addVote stored `vote`: replaced in place or pushed
addVoteIn(vs, vote) ==
  LET blockVotes == IF Has(vs, vote.blockHash) THEN vs[vote.blockHash] ELSE <<>>
      found == {i \in 1..Len(blockVotes) : blockVotes[i].validator = vote.validator}
      existingVoteIndex == CHOOSE i \in found : \A j \in found : i <= j
  IN  MapSet(vs, vote.blockHash,
             IF found # {} THEN [blockVotes EXCEPT ![existingVoteIndex] = vote]
             ELSE Append(blockVotes, vote))

\* updateLockout(validatorPublicKey, blockHash, lockout)
updateLockout(validatorPublicKey, lockout) ==
  IF ~Has(lockouts, validatorPublicKey) THEN lockouts
  ELSE [lockouts EXCEPT ![validatorPublicKey] =
          MapSet(@, consensusState.currentSlot,
                 consensusState.currentSlot + lockout)]

-----------------------------------------------------------------------------
(* ValidatorNode and P2PNetwork: inbound block messages *)

\* this node's key pair, and config.stake; config.nodeId is '2', so the node
\* relays nothing, and config.isValidator is true
SelfKey == "pk-a"

SelfPrivateKey == "sk-a"

SelfStake == 100

\* the peer that leads and sends blocks
PeerKey == "pk-b"

PeerPrivateKey == "sk-b"

\* KeyPair.fromPrivateKey(privateKey).publicKeyString
publicKeyString(privateKey) ==
  IF privateKey = SelfPrivateKey THEN SelfKey ELSE PeerKey

\* the fields of a message that are signed
messageData(type, data, sender) ==
  [type |-> type, data |-> data, sender |-> sender, timestamp |-> 1]

\* createMessage(type, data, privateKey), Date.now() being 1
createMessage(type, data, privateKey) ==
  [type |-> type, data |-> data, sender |-> publicKeyString(privateKey),
   timestamp |-> 1,
   signature |-> signMessage(messageData(type, data, publicKeyString(privateKey)),
                             privateKey)]

\* validateMessage(message)
validateMessage(message) ==
  verifySignature(messageData(message.type, message.data, message.sender),
                  message.signature, message.sender)

\* pohCount and slot of the blocks peers send
PeerPohCounts == {0, 1}

PeerSlots == {1, 2}

\* the blocks a peer leader sends: built on this node's tip or on the zero
\* hash of an empty chain
PeerBlocks ==
  {createBlock(<<>>, PohSampleHash(pohCount), pohCount, PeerKey, PeerPrivateKey,
               slot, getEpochFromSlot(slot), previousHash, 1) :
     pohCount \in PeerPohCounts, slot \in PeerSlots,
     previousHash \in {Undefined, ZeroHash}}

\* the frames a socket read delivers: block messages of the peer, and one
\* whose sender field is no public key
PeerFrames ==
  {createMessage("block", b, PeerPrivateKey) : b \in PeerBlocks}
  \cup {[createMessage("block", b, PeerPrivateKey) EXCEPT !.sender = "peer-x"] :
          b \in {x \in PeerBlocks : x.pohCount = 0 /\ x.slot = 1 /\ x.previousHash = ZeroHash}}

\* the handler of the k-th frame, suspended in handleMessage at
\* await validateMessage
NewHandler(message, k) ==
  [id |-> k, message |-> message, pc |-> "validateMessage",
   isValid |-> FALSE, vote |-> Undefined]

\* the running handler gives way at an await: its continuation is queued
\* behind those of the other unfinished handlers
Requeue(h) == Append(Tail(handlers), h)

\* what the step of handlers[1] did to chain and consensus state
Accessed(touched) ==
  [by |-> handlers[1].id, touched |-> touched,
   others |-> {handlers[i].id : i \in 2..Len(handlers)}]

\* start(): setupValidator, poh.start(), isRunning = true
NodeStart ==
  /\ ~nodeRunning
  /\ nodeRunning' = TRUE
  /\ validators' = MapSet(validators, SelfKey,
                          [publicKey |-> SelfKey, stake |-> SelfStake, isActive |-> TRUE])
  /\ lockouts' = IF Has(lockouts, SelfKey) THEN lockouts
                 ELSE MapSet(lockouts, SelfKey, <<>>)
  /\ IF isRunning
     THEN UNCHANGED <<isRunning, timerSeq, tickInterval, liveTimers>>
     ELSE /\ isRunning' = TRUE
          /\ timerSeq' = timerSeq + 1
          /\ tickInterval' = timerSeq + 1
          /\ liveTimers' = liveTimers \cup {timerSeq + 1}
  /\ UNCHANGED <<currentHash, count, entries, eventQueue, submitted>>
  /\ UNCHANGED <<votes, consensusState, leaderSchedules, epochBlocks, prng, given>>
  /\ UNCHANGED <<chainVars, callVars, txVars, handlers, received, delivered, timers, sent, access, readyVars>>

\* one socket read: ws emits 'message' for each frame of the read in turn,
\* and each listener runs up to await validateMessage
NodeReceive(frames) ==
  /\ nodeRunning
  /\ handlers = <<>>
  /\ received + Len(frames) <= MaxFrames
  /\ received' = received + Len(frames)
  /\ handlers' = [i \in 1..Len(frames) |-> NewHandler(frames[i], received + i)]
  /\ UNCHANGED <<nodeRunning, delivered, timers, sent, access, readyVars>>
  /\ UNCHANGED <<pohVars, chainVars, consVars, callVars, txVars>>

\* handleMessage after await validateMessage: drop the message, or call
\* handleBlockMessage, which runs validateBlock up to await verifySignature
NodeDispatch ==
  /\ handlers # <<>>
  /\ handlers[1].pc = "validateMessage"
  /\ handlers[1].message.type = "block"
  /\ LET h == handlers[1]
         block == h.message.data
     IN  handlers' =
           IF ~validateMessage(h.message) THEN Tail(handlers)
           ELSE IF block.hash # calculateBlockHash(block)
                THEN Requeue([h EXCEPT !.pc = "validated", !.isValid = FALSE])
                ELSE Requeue([h EXCEPT !.pc = "validateBlock"])
  /\ access' = Accessed(FALSE)
  /\ UNCHANGED <<nodeRunning, received, delivered, timers, sent, readyVars>>
  /\ UNCHANGED <<pohVars, chainVars, consVars, callVars, txVars>>

\* validateBlock after await verifySignature: the linkage check against the
\* chain's tip and the transaction count
NodeValidateBlock ==
  /\ handlers # <<>>
  /\ handlers[1].pc = "validateBlock"
  /\ LET h == handlers[1]
         block == h.message.data
     IN  /\ handlers' = Requeue([h EXCEPT !.pc = "validated",
                                          !.isValid = validateBlock(block)])
         /\ access' = Accessed(verifySignature(block.hash, block.signature, block.leader))
  /\ UNCHANGED <<nodeRunning, received, delivered, timers, sent, readyVars>>
  /\ UNCHANGED <<pohVars, chainVars, consVars, callVars, txVars>>

\* a node that votes on every block it receives
votesOnBlock_Always(block) == TRUE

\* handleBlockMessage: whether voteOnBlock is called for the block
\* (config.isValidator and keyPair are set)
votesOnBlock(block) == block.leader # SelfKey

\* handleBlockMessage after await validateBlock: addBlock, consensus.addBlock,
\* poh.addEvent, updateSlot, then voteOnBlock up to the await in createVote
NodeApplyBlock ==
  /\ handlers # <<>>
  /\ handlers[1].pc = "validated"
  /\ LET h == handlers[1]
         block == h.message.data
     IN  IF ~h.isValid
         THEN /\ handlers' = Tail(handlers)
              /\ access' = Accessed(FALSE)
              /\ UNCHANGED <<pohVars, chainVars, consVars, callVars, txVars>>
         ELSE /\ lastCall' = "addBlock"
              /\ addResult' = addBlockAccepts(block)
              /\ blockchain' = IF addBlockAccepts(block)
                               THEN Append(blockchain, block) ELSE blockchain
              /\ UNCHANGED created
              /\ given' = Append(given, block)
              /\ eventQueue' = Append(eventQueue, createEvent("block", block.hash))
              /\ submitted' = submitted + 1
              /\ UNCHANGED <<currentHash, count, isRunning, tickInterval, entries,
                             liveTimers, timerSeq>>
              /\ \E r \in updateSlotDraws(block.slot, addBlockIn(epochBlocks, block)) :
                   LET u == updateSlot(block.slot, addBlockIn(epochBlocks, block), r)
                   IN  /\ consensusState' = u.consensusState
                       /\ leaderSchedules' = u.leaderSchedules
                       /\ epochBlocks' = u.epochBlocks
                       /\ prng' = u.prng
              /\ lockouts' = cleanupExpiredLockouts(block.slot)
              /\ UNCHANGED <<validators, votes>>
              /\ LET lk == cleanupExpiredLockouts(block.slot)
                     voteData == [validator |-> SelfKey, blockHash |-> block.hash,
                                  timestamp |-> 1,
                                  lockout |-> calculateLockoutIn(lk, block.slot, SelfKey)]
                     vote == [validator |-> SelfKey, blockHash |-> block.hash,
                              timestamp |-> 1, lockout |-> voteData.lockout,
                              signature |-> signMessage(voteData, SelfPrivateKey)]
                 IN  handlers' =
                       IF ~votesOnBlock(block) THEN Tail(handlers)
                       ELSE IF ~Has(validators, SelfKey)
                               \/ ~canVoteIn(lk, block.slot, SelfKey)
                            THEN Requeue([h EXCEPT !.pc = "clients"])
                            ELSE Requeue([h EXCEPT !.pc = "createVote", !.vote = vote])
              /\ access' = Accessed(TRUE)
  /\ UNCHANGED <<nodeRunning, received, delivered, timers, sent, readyVars>>
  /\ UNCHANGED <<callVars, txVars>>

\* voteOnBlock after await createVote: consensus.addVote, then broadcast up
\* to the await in createMessage
NodeAddVote ==
  /\ handlers # <<>>
  /\ handlers[1].pc = "createVote"
  /\ LET h == handlers[1]
     IN  /\ votes' = IF validateVoteSync(h.vote) THEN addVoteIn(votes, h.vote) ELSE votes
         /\ lockouts' = IF validateVoteSync(h.vote)
                        THEN updateLockout(h.vote.validator, h.vote.lockout)
                        ELSE lockouts
         /\ handlers' = Requeue([h EXCEPT !.pc = "broadcast"])
  /\ access' = Accessed(TRUE)
  /\ UNCHANGED <<validators, consensusState, leaderSchedules, epochBlocks, prng, given>>
  /\ UNCHANGED <<nodeRunning, received, delivered, timers, sent, readyVars>>
  /\ UNCHANGED <<pohVars, chainVars, callVars, txVars>>

\* broadcast after await createMessage: the vote goes out to the peers
NodeBroadcast ==
  /\ handlers # <<>>
  /\ handlers[1].pc = "broadcast"
  /\ sent' = Append(sent, createMessage("vote", handlers[1].vote, SelfPrivateKey))
  /\ handlers' = Requeue([handlers[1] EXCEPT !.pc = "clients"])
  /\ access' = Accessed(FALSE)
  /\ UNCHANGED <<nodeRunning, received, delivered, timers, readyVars>>
  /\ UNCHANGED <<pohVars, chainVars, consVars, callVars, txVars>>

\* handleBlockMessage after await voteOnBlock: broadcastToClients with
\* getStatus() and consensus.getStats(), which read chain and consensus state
NodeNotifyClients ==
  /\ handlers # <<>>
  /\ handlers[1].pc = "clients"
  /\ handlers' = Tail(handlers)
  /\ access' = Accessed(TRUE)
  /\ UNCHANGED <<nodeRunning, received, delivered, timers, sent, readyVars>>
  /\ UNCHANGED <<pohVars, chainVars, consVars, callVars, txVars>>

NodeNext ==
  \/ NodeStart
  \/ \E f1 \in PeerFrames : NodeReceive(<<f1>>)
  \/ \E f1 \in PeerFrames, f2 \in PeerFrames : NodeReceive(<<f1, f2>>)
  \/ NodeDispatch
  \/ NodeValidateBlock
  \/ NodeApplyBlock
  \/ NodeAddVote
  \/ NodeBroadcast
  \/ NodeNotifyClients

-----------------------------------------------------------------------------
(* ValidatorNode: a chain of blocks delivered in any order *)

\* two chain-linked blocks of the peer: the first on the zero hash, the
\* second on the first
Linked1 ==
  createBlock(<<>>, PohSampleHash(0), 0, PeerKey, PeerPrivateKey, 1,
              getEpochFromSlot(1), ZeroHash, 1)

Linked2 ==
  createBlock(<<>>, PohSampleHash(1), 1, PeerKey, PeerPrivateKey, 2,
              getEpochFromSlot(2), Linked1.hash, 1)

LinkedBlocks == {Linked1, Linked2}

\* the block messages that carry them
LinkedFrames == {createMessage("block", b, PeerPrivateKey) : b \in LinkedBlocks}

\* one socket read of block messages for linked blocks, which are noted as
\* delivered
DeliveryReceive(frames) ==
  /\ nodeRunning
  /\ handlers = <<>>
  /\ received + Len(frames) <= MaxFrames
  /\ received' = received + Len(frames)
  /\ delivered' = delivered \cup {frames[i].data : i \in 1..Len(frames)}
  /\ handlers' = [i \in 1..Len(frames) |-> NewHandler(frames[i], received + i)]
  /\ UNCHANGED <<nodeRunning, timers, sent, access, readyVars>>
  /\ UNCHANGED <<pohVars, chainVars, consVars, callVars, txVars>>

DeliveryNext ==
  \/ NodeStart
  \/ \E f1 \in LinkedFrames : DeliveryReceive(<<f1>>)
  \/ \E f1 \in LinkedFrames, f2 \in LinkedFrames : DeliveryReceive(<<f1, f2>>)
  \/ NodeDispatch
  \/ NodeValidateBlock
  \/ NodeApplyBlock
  \/ NodeAddVote
  \/ NodeBroadcast
  \/ NodeNotifyClients

-----------------------------------------------------------------------------
(* ValidatorNode: validator announcements and block production *)

\* getLeaderForSlot returns null
Null == "null"

\* this.expectedValidatorCount
expectedValidatorCount == 3

\* getLeaderForSlot that rotates the genesis leader with every slot
getLeaderForSlot_PerSlot(slot) ==
  LET epoch == getEpochFromSlot(slot)
      slotInEpoch == getSlotInEpoch(slot)
      sortedValidators == SortKeys(getActiveValidators)
  IN  IF epoch = 0
      THEN IF getActiveValidators = {} THEN Null
           ELSE sortedValidators[(slot % Len(sortedValidators)) + 1]
      ELSE IF ~Has(leaderSchedules, epoch)
                \/ slotInEpoch >= Len(leaderSchedules[epoch].schedule)
           THEN Null
           ELSE leaderSchedules[epoch].schedule[slotInEpoch + 1]

\* getLeaderForSlot(slot)
getLeaderForSlot(slot) ==
  LET epoch == getEpochFromSlot(slot)
      slotInEpoch == getSlotInEpoch(slot)
      sortedValidators == SortKeys(getActiveValidators)
      rotationSlot == slot \div GENESIS_EPOCH_LEADER_ROTATION_SLOTS
  IN  IF epoch = 0
      THEN IF getActiveValidators = {} THEN Null
           ELSE sortedValidators[(rotationSlot % Len(sortedValidators)) + 1]
      ELSE IF ~Has(leaderSchedules, epoch)
                \/ slotInEpoch >= Len(leaderSchedules[epoch].schedule)
           THEN Null
           ELSE leaderSchedules[epoch].schedule[slotInEpoch + 1]

\* getCurrentLeader()
getCurrentLeader == getLeaderForSlot(consensusState.currentSlot)

\* isCurrentLeader()
isCurrentLeader == getCurrentLeader = SelfKey

\* updateLeaderSchedule() when the active validators are those of active
updateLeaderSchedule(active) ==
  IF active = {} THEN <<SelfKey>> ELSE SortKeys(active)

\* the timeout of waitForConsensusReady: block production starts with the
\* validators known by then
NodeReadyTimeout ==
  /\ nodeRunning
  /\ ~isReadyForConsensus
  /\ isReadyForConsensus' = TRUE
  /\ UNCHANGED <<nodeRunning, handlers, received, delivered, timers, sent, access, leaderSchedule>>
  /\ UNCHANGED <<pohVars, chainVars, consVars, callVars, txVars>>

\* handleMessage after await validateMessage, for a validator_info message:
\* drop it, or call handleValidatorInfoMessage, which runs up to the await in
\* sendToPeer
NodeAnnounce ==
  /\ handlers # <<>>
  /\ handlers[1].pc = "validateMessage"
  /\ handlers[1].message.type = "validator_info"
  /\ LET h == handlers[1]
         validatorInfo == h.message.data
         alreadyKnown == validatorInfo.publicKey \in getActiveValidators
         added == MapSet(validators, validatorInfo.publicKey, validatorInfo)
         active == {pk \in DOMAIN added : added[pk].isActive}
     IN  IF ~validateMessage(h.message) \/ alreadyKnown
         THEN /\ handlers' = Tail(handlers)
              /\ UNCHANGED <<validators, lockouts, readyVars>>
         ELSE /\ validators' = added
              /\ lockouts' = IF Has(lockouts, validatorInfo.publicKey) THEN lockouts
                             ELSE MapSet(lockouts, validatorInfo.publicKey, <<>>)
              /\ isReadyForConsensus' =
                   (isReadyForConsensus \/ Cardinality(active) >= expectedValidatorCount)
              /\ leaderSchedule' = updateLeaderSchedule(active)
              /\ handlers' = IF validatorInfo.publicKey # SelfKey
                             THEN Requeue([h EXCEPT !.pc = "sendToPeer"])
                             ELSE Tail(handlers)
  /\ access' = Accessed(TRUE)
  /\ UNCHANGED <<votes, consensusState, leaderSchedules, epochBlocks, prng, given>>
  /\ UNCHANGED <<nodeRunning, received, delivered, timers, sent>>
  /\ UNCHANGED <<pohVars, chainVars, callVars, txVars>>

\* the ValidatorInfo this node answers an announcement with
ourValidatorInfo == [publicKey |-> SelfKey, stake |-> SelfStake, isActive |-> TRUE]

\* sendToPeer after await createMessage: this node's own validator_info goes
\* to the sender of the announcement
NodeRespond ==
  /\ handlers # <<>>
  /\ handlers[1].pc = "sendToPeer"
  /\ sent' = Append(sent, createMessage("validator_info", ourValidatorInfo, SelfPrivateKey))
  /\ handlers' = Tail(handlers)
  /\ access' = Accessed(FALSE)
  /\ UNCHANGED <<nodeRunning, received, delivered, timers, readyVars>>
  /\ UNCHANGED <<pohVars, chainVars, consVars, callVars, txVars>>

\* the interval of startBlockProduction fires and this node leads: produceBlock
\* with an empty transaction pool, through createBlock and up to the await of
\* verifySignature in validateBlock; a timer callback starts when no
\* continuation is queued
NodeProduce ==
  /\ nodeRunning
  /\ handlers = <<>>
  /\ isReadyForConsensus
  /\ isCurrentLeader
  /\ entries # <<>>
  /\ Len(blockchain) < MaxChain
  /\ LET pohEntry == entries[Len(entries)]
         nextSlot == consensusState.currentSlot + 1
         block == createBlock(<<>>, pohEntry.hash, pohEntry.count, SelfKey,
                              SelfPrivateKey, nextSlot, getEpochFromSlot(nextSlot),
                              Undefined, 1)
     IN  handlers' = <<[id |-> 0,
                        message |-> createMessage("block", block, SelfPrivateKey),
                        pc |-> "produceValidate", isValid |-> FALSE,
                        vote |-> Undefined]>>
  /\ access' = [by |-> 0, touched |-> TRUE, others |-> {}]
  /\ UNCHANGED <<nodeRunning, received, delivered, timers, sent, readyVars>>
  /\ UNCHANGED <<pohVars, chainVars, consVars, callVars, txVars>>

\* produceBlock after await validateBlock: addBlock, consensus.addBlock,
\* poh.addEvent, then broadcast up to the await in createMessage
NodeProduceApply ==
  /\ handlers # <<>>
  /\ handlers[1].pc = "produceValidate"
  /\ LET h == handlers[1]
         block == h.message.data
     IN  IF ~validateBlock(block)
         THEN /\ handlers' = Tail(handlers)
              /\ UNCHANGED <<pohVars, chainVars, consVars>>
         ELSE /\ lastCall' = "addBlock"
              /\ addResult' = addBlockAccepts(block)
              /\ blockchain' = IF addBlockAccepts(block)
                               THEN Append(blockchain, block) ELSE blockchain
              /\ UNCHANGED created
              /\ given' = Append(given, block)
              /\ epochBlocks' = addBlockIn(epochBlocks, block)
              /\ eventQueue' = Append(eventQueue, createEvent("block", block.hash))
              /\ submitted' = submitted + 1
              /\ UNCHANGED <<currentHash, count, isRunning, tickInterval, entries,
                             liveTimers, timerSeq>>
              /\ UNCHANGED <<validators, votes, lockouts, consensusState,
                             leaderSchedules, prng>>
              /\ handlers' = Requeue([h EXCEPT !.pc = "produceBroadcast"])
  /\ access' = Accessed(TRUE)
  /\ UNCHANGED <<nodeRunning, received, delivered, timers, sent, readyVars>>
  /\ UNCHANGED <<callVars, txVars>>

\* produceBlock after await broadcast: the block has gone to the peers, then
\* updateSlot(block.slot) and broadcastToClients; no vote is cast
NodeProduceSlot ==
  /\ handlers # <<>>
  /\ handlers[1].pc = "produceBroadcast"
  /\ LET block == handlers[1].message.data
     IN  /\ \E r \in updateSlotDraws(block.slot, epochBlocks) :
              LET u == updateSlot(block.slot, epochBlocks, r)
              IN  /\ consensusState' = u.consensusState
                  /\ leaderSchedules' = u.leaderSchedules
                  /\ epochBlocks' = u.epochBlocks
                  /\ prng' = u.prng
         /\ lockouts' = cleanupExpiredLockouts(block.slot)
  /\ sent' = Append(sent, handlers[1].message)
  /\ handlers' = Tail(handlers)
  /\ access' = Accessed(TRUE)
  /\ UNCHANGED <<validators, votes, given>>
  /\ UNCHANGED <<nodeRunning, received, delivered, timers, readyVars>>
  /\ UNCHANGED <<pohVars, chainVars, callVars, txVars>>

\* the first tick of the clock, which gives produceBlock its PoH entry
NodeFirstTick == count = 0 /\ PohTick

\* the announcements peers send: the peer validator with either stake, and
\* inactive
PeerInfos ==
  {[publicKey |-> PeerKey, stake |-> 200, isActive |-> TRUE],
   [publicKey |-> PeerKey, stake |-> 300, isActive |-> TRUE],
   [publicKey |-> PeerKey, stake |-> 200, isActive |-> FALSE]}

\* leader and slot of the blocks peers send: blocks of the peer leader that
\* open the next epochs, and blocks that name this node as their leader
PeerLedSlots == {SLOTS_PER_EPOCH, 2 * SLOTS_PER_EPOCH}

SelfLedSlots == {1}

\* the frames peers send: announcements, and blocks built on this node's tip
ClusterFrames ==
  {createMessage("validator_info", info, PeerPrivateKey) : info \in PeerInfos}
  \cup {createMessage("block",
                      createBlock(<<>>, PohSampleHash(0), 0, PeerKey, PeerPrivateKey,
                                  slot, getEpochFromSlot(slot), Undefined, 1),
                      PeerPrivateKey) : slot \in PeerLedSlots}
  \cup {createMessage("block",
                      createBlock(<<>>, PohSampleHash(0), 0, SelfKey, SelfPrivateKey,
                                  slot, getEpochFromSlot(slot), Undefined, 1),
                      PeerPrivateKey) : slot \in SelfLedSlots}

ClusterNext ==
  \/ NodeStart
  \/ NodeReadyTimeout
  \/ NodeFirstTick
  \/ \E f \in ClusterFrames : NodeReceive(<<f>>)
  \/ NodeDispatch
  \/ NodeAnnounce
  \/ NodeRespond
  \/ NodeValidateBlock
  \/ NodeApplyBlock
  \/ NodeAddVote
  \/ NodeBroadcast
  \/ NodeNotifyClients
  \/ NodeProduce
  \/ NodeProduceApply
  \/ NodeProduceSlot

-----------------------------------------------------------------------------
(* SimplifiedConsensus: the leader schedule as a function of its inputs *)

\* Here a validator is named by the rank of its public key in localeCompare
\* order, and the active validators are listed in Map insertion order.

\* a sort that leaves the array as it is
sortByRank_None(list) == list

\* one step of the sort: v put into its place in a sorted array
RECURSIVE InsertByRank(_, _)
InsertByRank(sorted, v) ==
  IF sorted = <<>> THEN <<v>>
  ELSE IF v < Head(sorted) THEN <<v>> \o sorted
       ELSE <<Head(sorted)>> \o InsertByRank(Tail(sorted), v)

\* activeValidators.sort((a, b) => a.publicKey.localeCompare(b.publicKey))
RECURSIVE sortByRank(_)
sortByRank(list) ==
  IF list = <<>> THEN <<>>
  ELSE InsertByRank(sortByRank(SubSeq(list, 1, Len(list) - 1)), list[Len(list)])

\* generateLeaderSchedule(epoch, seed) for epoch > 0 on the active
\* validators given; r are the bytes the shuffle reads for the seed
generateLeaderScheduleIn(activeValidators, epoch, r) ==
  IF Len(activeValidators) = 0 THEN <<>>
  ELSE generateEqualDistributionSchedule(sortByRank(activeValidators), r)

\* the bytes a shuffle of n validators may read: every value for small n,
\* four sample digests for larger n
Draws(n) ==
  IF n <= MaxFullShuffle
  THEN {r \in [1..(n - 1) -> 0..(n - 1)] : \A i \in 1..(n - 1) : r[i] <= i}
  ELSE {[i \in 1..(n - 1) |-> 0], [i \in 1..(n - 1) |-> i],
        [i \in 1..(n - 1) |-> i \div 2], [i \in 1..(n - 1) |-> (7 * i + 3) % (i + 1)]}

\* n active validators, inserted in descending order of their keys
Descending(n) == [i \in 1..n |-> n + 1 - i]

\* generateLeaderSchedule(epoch, seed) called in an engine with n active
\* validators; one call in a behaviour, calls do not affect each other
ScheduleGenerate ==
  /\ call.op = "none"
  /\ \E n \in 1..MaxValidators, epoch \in 1..MaxEpoch : \E r \in Draws(n) :
       call' = [op |-> "generateLeaderSchedule", active |-> Descending(n),
                epoch |-> epoch, r |-> r,
                schedule |-> generateLeaderScheduleIn(Descending(n), epoch, r)]
  /\ UNCHANGED <<pohVars, chainVars, consVars, nodeVars, txVars>>

\* the orders in which the validators of a set can have been added
RECURSIVE Orders(_)
Orders(S) ==
  IF S = {} THEN {<<>>}
  ELSE UNION {{Append(o, v) : o \in Orders(S \ {v})} : v \in S}

\* the active validators an engine holds, in insertion order
ActiveLists == UNION {Orders(S) : S \in SUBSET (1..MaxPairValidators)}

\* the blocks an engine has recorded for the epoch that ends
RecordedBlocks ==
  {<<>>,
   <<BlockForSlot(1, "pk-a"), BlockForSlot(2, "pk-a")>>,
   <<BlockForSlot(2, "pk-a"), BlockForSlot(1, "pk-a")>>}

\* the bytes a second shuffle of n validators may read after a first one
\* read r: the same bytes at the same indices if the seed is the same
DrawsAfter(n, sameSeed, r) ==
  {q \in Draws(n) :
     sameSeed => \A i \in (DOMAIN q) \cap (DOMAIN r) : q[i] = r[i]}

\* the seed an engine in epoch 0 computes from its recorded blocks
SeedOf(blocks) == calculateEpochFinalHashIn((0 :> blocks), 0)

\* transitionToNextEpoch out of epoch 0 in two engines A and B: the seed and
\* the schedule each stores for epoch 1
ScheduleTransition ==
  /\ call.op = "none"
  /\ \E activeA \in ActiveLists, activeB \in ActiveLists :
       \E blocksA \in RecordedBlocks, blocksB \in RecordedBlocks :
         \E rA \in Draws(Len(activeA)) :
           \E rB \in DrawsAfter(Len(activeB), SeedOf(blocksA) = SeedOf(blocksB), rA) :
             call' = [op |-> "transitionToNextEpoch",
                      activeA |-> activeA, activeB |-> activeB,
                      blocksA |-> blocksA, blocksB |-> blocksB,
                      seedA |-> SeedOf(blocksA), seedB |-> SeedOf(blocksB),
                      scheduleA |-> generateLeaderScheduleIn(activeA, 1, rA),
                      scheduleB |-> generateLeaderScheduleIn(activeB, 1, rB)]
  /\ UNCHANGED <<pohVars, chainVars, consVars, nodeVars, txVars>>

ScheduleNext ==
  \/ ScheduleGenerate
  \/ ScheduleTransition

-----------------------------------------------------------------------------
(* SimplifiedConsensus: creating, validating, adding and counting votes *)

\* calculateLockout(validatorPublicKey)
calculateLockout(validatorPublicKey) ==
  calculateLockoutIn(lockouts, consensusState.currentSlot, validatorPublicKey)

\* the fields of a vote that are signed
voteData(validator, blockHash, lockout) ==
  [validator |-> validator, blockHash |-> blockHash, timestamp |-> 1,
   lockout |-> lockout]

\* a vote with the signature its validator's key makes, Date.now() being 1
SignedVote(validator, blockHash, lockout, privateKey) ==
  [validator |-> validator, blockHash |-> blockHash, timestamp |-> 1,
   lockout |-> lockout,
   signature |-> signMessage(voteData(validator, blockHash, lockout), privateKey)]

\* createVote(blockHash, validatorPublicKey, privateKey): the error thrown
\* or the vote returned
createVote(blockHash, validatorPublicKey, privateKey) ==
  IF ~Has(validators, validatorPublicKey)
  THEN [ok |-> FALSE, error |-> "Validator not found"]
  ELSE IF ~canVote(validatorPublicKey, blockHash)
       THEN [ok |-> FALSE, error |-> "Cannot vote due to lockout constraints"]
       ELSE [ok |-> TRUE,
             vote |-> SignedVote(validatorPublicKey, blockHash,
                                 calculateLockout(validatorPublicKey), privateKey)]

\* validateVote(vote)
validateVote(vote) ==
  /\ Has(validators, vote.validator)
  /\ validators[vote.validator].isActive
  /\ verifySignature(voteData(vote.validator, vote.blockHash, vote.lockout),
                     vote.signature, vote.validator)
  /\ canVote(vote.validator, vote.blockHash)

\* getVotesForBlock(blockHash)
getVotesForBlock(blockHash) ==
  IF Has(votes, blockHash) THEN votes[blockHash] ELSE <<>>

\* the loop of calculateStakeWeight over the votes vs
RECURSIVE StakeOfVotes(_)
StakeOfVotes(vs) ==
  IF vs = <<>> THEN 0
  ELSE (IF Has(validators, Head(vs).validator) /\ validators[Head(vs).validator].isActive
        THEN validators[Head(vs).validator].stake ELSE 0)
       + StakeOfVotes(Tail(vs))

\* calculateStakeWeight(blockHash)
calculateStakeWeight(blockHash) == StakeOfVotes(getVotesForBlock(blockHash))

\* the loop of getTotalStake over the validators with keys in S
RECURSIVE StakeOfKeys(_)
StakeOfKeys(S) ==
  IF S = {} THEN 0
  ELSE LET pk == CHOOSE x \in S : TRUE
       IN  (IF validators[pk].isActive THEN validators[pk].stake ELSE 0)
           + StakeOfKeys(S \ {pk})

\* getTotalStake()
getTotalStake == StakeOfKeys(DOMAIN validators)

\* a supermajority test that accepts two thirds exactly
hasSupermajority_AtLeast(blockHash) ==
  3 * calculateStakeWeight(blockHash) >= 2 * getTotalStake

\* hasSupermajority(blockHash): stakeWeight > (totalStake * 2) / 3 with the
\* quotient a real number; an integer exceeds it exactly when it exceeds its
\* integer part
hasSupermajority(blockHash) ==
  calculateStakeWeight(blockHash) > (getTotalStake * 2) \div 3

\* the addVote calls made so far
VotesAdded == IF call.op = "addVote" THEN call.n ELSE 0

\* createVote(blockHash, validatorPublicKey, privateKey), called
VoteCreate(blockHash, validatorPublicKey, privateKey) ==
  /\ call' = [op |-> "createVote", blockHash |-> blockHash,
              validator |-> validatorPublicKey,
              result |-> createVote(blockHash, validatorPublicKey, privateKey)]
  /\ UNCHANGED <<pohVars, chainVars, consVars, nodeVars, txVars>>

\* validateVote(vote), called
VoteValidate(vote) ==
  /\ call' = [op |-> "validateVote", vote |-> vote, result |-> validateVote(vote)]
  /\ UNCHANGED <<pohVars, chainVars, consVars, nodeVars, txVars>>

\* addVote(vote), called
VoteAdd(vote) ==
  /\ VotesAdded < MaxVotes
  /\ call' = [op |-> "addVote", n |-> VotesAdded + 1, vote |-> vote,
              result |-> validateVoteSync(vote)]
  /\ votes' = IF validateVoteSync(vote) THEN addVoteIn(votes, vote) ELSE votes
  /\ lockouts' = IF validateVoteSync(vote)
                 THEN updateLockout(vote.validator, vote.lockout)
                 ELSE lockouts
  /\ UNCHANGED <<validators, consensusState, leaderSchedules, epochBlocks, prng, given>>
  /\ UNCHANGED <<pohVars, chainVars, nodeVars, txVars>>

\* the stake each validator is added with
StakeOf(publicKey) == IF publicKey = "pk-a" THEN 100 ELSE 200

\* the private key of a validator's key pair
privateKeyOf(publicKey) ==
  IF publicKey = "pk-a" THEN "sk-a" ELSE "sk-b"

\* the block hashes voted on
VoteHashes == {Str("block-1"), Str("block-2")}

\* a lockout above the two slots canVote tolerates
LongLockout == 3

\* the votes given to addVote and validateVote: with the lockout
\* calculateLockout gives now, or a long one
VoteInputs ==
  {SignedVote(pk, h, l, privateKeyOf(pk)) :
     pk \in ValidatorKeys, h \in VoteHashes, l \in {LongLockout}}
  \cup {SignedVote(pk, h, calculateLockout(pk), privateKeyOf(pk)) :
          pk \in ValidatorKeys, h \in VoteHashes}

\* nothing follows a createVote or validateVote call
Callable == call.op \in {"none", "addVote"}

VotingNext ==
  \/ \E publicKey \in ValidatorKeys, isActive \in BOOLEAN :
       Callable /\ ConsAddValidator(publicKey, StakeOf(publicKey), isActive)
  \/ \E slot \in 0..MaxSlot : Callable /\ ConsUpdateSlot(slot)
  \/ \E blockHash \in VoteHashes, publicKey \in ValidatorKeys :
       Callable /\ VoteCreate(blockHash, publicKey, privateKeyOf(publicKey))
  \/ \E vote \in VoteInputs : Callable /\ VoteValidate(vote)
  \/ \E vote \in VoteInputs : Callable /\ VoteAdd(vote)

-----------------------------------------------------------------------------
(* SimplifiedConsensus: fork choice *)

\* the loop of selectFork from candidate i on
RECURSIVE SelectForkFrom(_, _, _, _)
SelectForkFrom(candidateBlocks, i, bestBlock, bestStakeWeight) ==
  IF i > Len(candidateBlocks) THEN bestBlock
  ELSE LET block == candidateBlocks[i]
           stakeWeight == calculateStakeWeight(block.hash)
       IN  IF stakeWeight > bestStakeWeight
           THEN SelectForkFrom(candidateBlocks, i + 1, <<block>>, stakeWeight)
           ELSE SelectForkFrom(candidateBlocks, i + 1, bestBlock, bestStakeWeight)

\* the null of selectFork: no block, and so no hash
NoBlock == <<>>

\* selectFork(candidateBlocks); bestBlock is NoBlock for null, <<block>> else
selectFork(candidateBlocks) ==
  LET bestBlock == SelectForkFrom(candidateBlocks, 1, NoBlock, 0)
  IN  IF bestBlock # NoBlock THEN bestBlock[1].hash ELSE NoBlock

\* the candidate lists given to selectFork: of a candidate block only the
\* hash is read
CandidateLists ==
  {<<>>} \cup {<<[hash |-> h]>> : h \in VoteHashes}
  \cup {<<[hash |-> p[1]], [hash |-> p[2]]>> :
          p \in {q \in VoteHashes \X VoteHashes : q[1] # q[2]}}

\* selectFork(candidateBlocks), called
ForkSelect ==
  /\ Callable
  /\ \E candidateBlocks \in CandidateLists :
       call' = [op |-> "selectFork", candidates |-> candidateBlocks,
                result |-> selectFork(candidateBlocks)]
  /\ UNCHANGED <<pohVars, chainVars, consVars, nodeVars, txVars>>

\* an active validator is added
ForkAddValidator ==
  /\ Callable
  /\ \E publicKey \in ValidatorKeys : ConsAddValidator(publicKey, StakeOf(publicKey), TRUE)

\* a validator votes for a block with the lockout calculated for it
ForkAddVote ==
  /\ Callable
  /\ \E publicKey \in ValidatorKeys, blockHash \in VoteHashes :
       VoteAdd(SignedVote(publicKey, blockHash, calculateLockout(publicKey),
                          privateKeyOf(publicKey)))

ForkNext ==
  \/ ForkAddValidator
  \/ ForkAddVote
  \/ ForkSelect

-----------------------------------------------------------------------------
(* BlockProducer: validateBlock on blocks and their signatures *)

\* the private keys blocks are signed with
SignerKeys == {"sk-a", "sk-b"}

\* signature strings that no key made: 32 arbitrary bytes, and 16
ArbitrarySignatures ==
  {[hex |-> Str("arbitrary"), bytes |-> 32], [hex |-> Str("short"), bytes |-> 16]}

\* the block with its signature field replaced
Resigned(b) ==
  {[b EXCEPT !.signature = signMessage(b.hash, privateKey)] : privateKey \in SignerKeys}
  \cup {[b EXCEPT !.signature = signature] : signature \in ArbitrarySignatures}

\* createBlock for the next slot on the chain's tip
VerifyCreateBlock ==
  /\ call.op = "none"
  /\ \E leader \in HexKeys, privateKey \in SignerKeys :
       ChainCreateBlock(<<>>, 0, leader, privateKey, Len(blockchain), Undefined, 1)

\* addBlock of the block created last
VerifyAddBlock ==
  /\ call.op = "none"
  /\ created # <<>>
  /\ ChainAddBlock(created[1])

\* validateBlock(block), called once on the block created last under some
\* signature
VerifyValidateBlock ==
  /\ call.op = "none"
  /\ created # <<>>
  /\ \E block \in Resigned(created[1]) :
       call' = [op |-> "validateBlock", block |-> block,
                result |-> validateBlock(block)]
  /\ UNCHANGED <<pohVars, chainVars, consVars, nodeVars, txVars>>

VerifyNext ==
  \/ VerifyCreateBlock
  \/ VerifyAddBlock
  \/ VerifyValidateBlock

-----------------------------------------------------------------------------
(* BlockProducer: addBlock on blocks of any make *)

\* the block with more transactions than a block may hold, hashed and signed
\* by its leader as it stands
Oversized(b) ==
  LET data == [b EXCEPT !.transactions = [i \in 1..(MaxTxPerBlock + 1) |-> "tx"]]
  IN  [data EXCEPT !.hash = calculateBlockHash(data),
                   !.signature = signMessage(calculateBlockHash(data), SelfPrivateKey)]

\* blocks given to addBlock: the created block as it is or altered, with a
\* signature of 16 bytes, or oversized
AcceptBlocks(b) ==
  Altered(b)
  \cup {[b EXCEPT !.signature = [hex |-> Str("short"), bytes |-> 16]], Oversized(b)}

\* createBlock for the next slot on the chain's tip
AcceptCreateBlock ==
  /\ Len(blockchain) <= MaxChain
  /\ ChainCreateBlock(<<>>, 0, SelfKey, SelfPrivateKey, Len(blockchain), Undefined, 1)

\* addBlock(block) on the block created last, or on a variant of it
AcceptAddBlock ==
  /\ Len(blockchain) < MaxChain
  /\ created # <<>>
  /\ \E block \in AcceptBlocks(created[1]) :
       /\ call' = [op |-> "addBlock", block |-> block]
       /\ addResult' = addBlockAccepts(block)
       /\ blockchain' = IF addBlockAccepts(block)
                        THEN Append(blockchain, block) ELSE blockchain
  /\ lastCall' = "addBlock"
  /\ UNCHANGED created
  /\ UNCHANGED <<pohVars, consVars, nodeVars, txVars>>

AcceptNext ==
  \/ AcceptCreateBlock
  \/ AcceptAddBlock

-----------------------------------------------------------------------------
(* SimplifiedConsensus: the leader of a slot *)

\* the validators announced to the engine whose leaders are asked for
RotationKeys == {"pk-a", "pk-b", "pk-c"}

\* the slots getLeaderForSlot is asked for: those of epoch 0 and the first
\* of epoch 1
LeaderSlots == 0..SLOTS_PER_EPOCH

\* the slots the engine is moved to: the first of epoch 0 and of epoch 1
RotationSlotInputs == {0, SLOTS_PER_EPOCH}

\* addValidator(validator)
LeaderAddValidator ==
  /\ call.op = "none"
  /\ \E publicKey \in RotationKeys, isActive \in BOOLEAN :
       ConsAddValidator(publicKey, 100, isActive)

\* removeValidator(publicKey)
LeaderRemoveValidator ==
  /\ call.op = "none"
  /\ \E publicKey \in RotationKeys : ConsRemoveValidator(publicKey)

\* updateSlot(slot)
LeaderUpdateSlot ==
  /\ call.op = "none"
  /\ \E slot \in RotationSlotInputs : ConsUpdateSlot(slot)

\* getLeaderForSlot(slot), called
LeaderForSlot ==
  /\ call.op = "none"
  /\ \E slot \in LeaderSlots :
       call' = [op |-> "getLeaderForSlot", slot |-> slot,
                result |-> getLeaderForSlot(slot)]
  /\ UNCHANGED <<pohVars, chainVars, consVars, nodeVars, txVars>>

LeaderNext ==
  \/ LeaderAddValidator
  \/ LeaderRemoveValidator
  \/ LeaderUpdateSlot
  \/ LeaderForSlot

-----------------------------------------------------------------------------
(* ValidatorNode: start-up timers and stop *)

\* no timer of the node is set and stop() was not called
NoTimers ==
  [timeout |-> FALSE, delay |-> FALSE, production |-> FALSE, stopped |-> FALSE]

\* start() of a node without peers: setupValidator, poh.start(),
\* waitForConsensusReady, isRunning = true. No validator_info arrives, so the
\* readiness check every 500 ms never finds isReadyForConsensus set, and only
\* the 10-second timeout is kept as a timer
StopStart ==
  /\ ~nodeRunning
  /\ ~timers.stopped
  /\ timers' = [timers EXCEPT !.timeout = TRUE]
  /\ nodeRunning' = TRUE
  /\ validators' = MapSet(validators, SelfKey,
                          [publicKey |-> SelfKey, stake |-> SelfStake, isActive |-> TRUE])
  /\ lockouts' = IF Has(lockouts, SelfKey) THEN lockouts
                 ELSE MapSet(lockouts, SelfKey, <<>>)
  /\ isRunning' = TRUE
  /\ timerSeq' = timerSeq + 1
  /\ tickInterval' = timerSeq + 1
  /\ liveTimers' = liveTimers \cup {timerSeq + 1}
  /\ UNCHANGED <<currentHash, count, entries, eventQueue, submitted>>
  /\ UNCHANGED <<votes, consensusState, leaderSchedules, epochBlocks, prng, given>>
  /\ UNCHANGED <<chainVars, callVars, txVars, handlers, received, delivered, sent,
                 access, readyVars>>

\* stop(): isRunning = false, poh.stop(), network.stop(), and clearInterval
\* of blockProductionInterval if it is set
StopStop ==
  /\ nodeRunning
  /\ handlers = <<>>
  /\ nodeRunning' = FALSE
  /\ timers' = [timers EXCEPT !.production = FALSE, !.stopped = TRUE]
  /\ isRunning' = FALSE
  /\ tickInterval' = NoTimer
  /\ liveTimers' = IF tickInterval # NoTimer
                   THEN liveTimers \ {tickInterval} ELSE liveTimers
  /\ UNCHANGED <<currentHash, count, entries, eventQueue, timerSeq, submitted>>
  /\ UNCHANGED <<chainVars, consVars, callVars, txVars, handlers, received,
                 delivered, sent, access, readyVars>>

\* the 10-second timeout of waitForConsensusReady fires: isReadyForConsensus
\* is set and startBlockProduction sets its 1-second delay
StopTimeout ==
  /\ timers.timeout
  /\ handlers = <<>>
  /\ timers' = [timers EXCEPT !.timeout = FALSE, !.delay = ~isReadyForConsensus]
  /\ isReadyForConsensus' = TRUE
  /\ UNCHANGED <<nodeRunning, handlers, received, delivered, sent, access, leaderSchedule>>
  /\ UNCHANGED <<pohVars, chainVars, consVars, callVars, txVars>>

\* the delay of startBlockProduction fires: blockProductionInterval is set
StopDelay ==
  /\ timers.delay
  /\ handlers = <<>>
  /\ timers' = [timers EXCEPT !.delay = FALSE, !.production = TRUE]
  /\ UNCHANGED <<nodeRunning, handlers, received, delivered, sent, access, readyVars>>
  /\ UNCHANGED <<pohVars, chainVars, consVars, callVars, txVars>>

\* blockProductionInterval fires, and produceBlock runs up to
\* await validateBlock
StopProduce ==
  /\ timers.production
  /\ handlers = <<>>
  /\ isReadyForConsensus
  /\ isCurrentLeader
  /\ entries # <<>>
  /\ Len(blockchain) < MaxChain
  /\ LET pohEntry == entries[Len(entries)]
         nextSlot == consensusState.currentSlot + 1
         block == createBlock(<<>>, pohEntry.hash, pohEntry.count, SelfKey,
                              SelfPrivateKey, nextSlot, getEpochFromSlot(nextSlot),
                              Undefined, 1)
     IN  handlers' = <<[id |-> 0,
                        message |-> createMessage("block", block, SelfPrivateKey),
                        pc |-> "produceValidate", isValid |-> FALSE,
                        vote |-> Undefined]>>
  /\ access' = [by |-> 0, touched |-> TRUE, others |-> {}]
  /\ UNCHANGED <<nodeRunning, received, delivered, timers, sent, readyVars>>
  /\ UNCHANGED <<pohVars, chainVars, consVars, callVars, txVars>>

StopNext ==
  \/ StopStart
  \/ StopStop
  \/ StopTimeout
  \/ StopDelay
  \/ PohTick
  \/ StopProduce
  \/ NodeProduceApply
  \/ NodeProduceSlot

-----------------------------------------------------------------------------
(* TransactionProcessor *)

\* getTransactionId(transaction): from, to, nonce and timestamp joined by
\* '-', which occurs in none of them
getTransactionId(transaction) ==
  <<transaction.from, transaction.to, transaction.nonce, transaction.timestamp>>

\* the fields of a transaction that are signed
transactionData(transaction) ==
  [from |-> transaction.from, to |-> transaction.to,
   amount |-> transaction.amount, fee |-> transaction.fee,
   timestamp |-> transaction.timestamp, nonce |-> transaction.nonce]

\* a validateTransaction without the nonce check
validateTransaction_AnyNonce(transaction) ==
  /\ getTransactionId(transaction) \notin processedTransactions
  /\ Has(accounts, transaction.from)
  /\ ~(accounts[transaction.from].balance < transaction.amount + transaction.fee)
  /\ verifySignature(transactionData(transaction), transaction.signature,
                     transaction.from)

\* a validateTransaction without the balance check
validateTransaction_Overdraft(transaction) ==
  /\ getTransactionId(transaction) \notin processedTransactions
  /\ Has(accounts, transaction.from)
  /\ transaction.nonce = accounts[transaction.from].nonce + 1
  /\ verifySignature(transactionData(transaction), transaction.signature,
                     transaction.from)

\* validateTransaction(transaction) with the accounts acc and the processed
\* ids done, as processTransactionBatch meets them from transfer to transfer
validateTransactionIn(acc, done, transaction) ==
  /\ getTransactionId(transaction) \notin done
  /\ Has(acc, transaction.from)
  /\ ~(acc[transaction.from].balance < transaction.amount + transaction.fee)
  /\ transaction.nonce = acc[transaction.from].nonce + 1
  /\ verifySignature(transactionData(transaction), transaction.signature,
                     transaction.from)

\* validateTransaction(transaction)
validateTransaction(transaction) ==
  /\ getTransactionId(transaction) \notin processedTransactions
  /\ Has(accounts, transaction.from)
  /\ ~(accounts[transaction.from].balance < transaction.amount + transaction.fee)
  /\ transaction.nonce = accounts[transaction.from].nonce + 1
  /\ verifySignature(transactionData(transaction), transaction.signature,
                     transaction.from)

\* createAccount(publicKey, initialBalance): the account made
newAccount(publicKey, initialBalance) ==
  [publicKey |-> publicKey, balance |-> initialBalance, nonce |-> 0]

\* a transfer that credits the fee to the recipient as well
applyTransaction_FeeCredited(acc, transaction) ==
  LET withTo == IF Has(acc, transaction.to) THEN acc
                ELSE MapSet(acc, transaction.to, newAccount(transaction.to, 0))
      debited == [withTo EXCEPT
                    ![transaction.from].balance = @ - (transaction.amount + transaction.fee),
                    ![transaction.from].nonce = transaction.nonce]
  IN  [debited EXCEPT ![transaction.to].balance = @ + transaction.amount + transaction.fee]

\* processTransaction after validation: the accounts acc after the transfer
applyTransaction(acc, transaction) ==
  LET withTo == IF Has(acc, transaction.to) THEN acc
                ELSE MapSet(acc, transaction.to, newAccount(transaction.to, 0))
      debited == [withTo EXCEPT
                    ![transaction.from].balance = @ - (transaction.amount + transaction.fee),
                    ![transaction.from].nonce = transaction.nonce]
  IN  [debited EXCEPT ![transaction.to].balance = @ + transaction.amount]

\* a processTransaction that records no transaction id
markProcessed_Forgotten(transaction) == processedTransactions

\* processedTransactions.add(transactionId)
markProcessed(transaction) ==
  processedTransactions \cup {getTransactionId(transaction)}

\* the processTransaction calls made so far
ProcessCalls == IF call.op = "processTransaction" THEN call.n ELSE 0

\* nothing follows a validateTransaction call
LedgerCallable == call.op \in {"none", "processTransaction"}

\* createAccount(publicKey, initialBalance)
TxCreateAccount(publicKey, initialBalance) ==
  /\ LedgerCallable
  /\ accounts' = MapSet(accounts, publicKey, newAccount(publicKey, initialBalance))
  /\ UNCHANGED <<transactionPool, processedTransactions, applied>>
  /\ UNCHANGED <<pohVars, chainVars, consVars, nodeVars, callVars>>

\* validateTransaction(transaction), called
TxValidate(transaction) ==
  /\ LedgerCallable
  /\ call' = [op |-> "validateTransaction", transaction |-> transaction,
              result |-> validateTransaction(transaction)]
  /\ UNCHANGED <<pohVars, chainVars, consVars, nodeVars, txVars>>

\* processTransaction(transaction), awaited by its caller
TxProcess(transaction) ==
  /\ LedgerCallable
  /\ ProcessCalls < MaxProcessed
  /\ call' = [op |-> "processTransaction", n |-> ProcessCalls + 1,
              transaction |-> transaction,
              result |-> validateTransaction(transaction)]
  /\ IF validateTransaction(transaction)
     THEN /\ accounts' = applyTransaction(accounts, transaction)
          /\ processedTransactions' = markProcessed(transaction)
          /\ applied' = Append(applied, transaction)
     ELSE UNCHANGED <<accounts, processedTransactions, applied>>
  /\ UNCHANGED transactionPool
  /\ UNCHANGED <<pohVars, chainVars, consVars, nodeVars>>

\* the balance accounts are created with
InitialBalance == 20

\* amounts of the transfers submitted
TxAmounts == {5, 15}

\* the fee of the transfers submitted
TxFee == 1

\* nonces of the transfers submitted
TxNonces == {1, 2}

\* a transfer signed with the sender's key
SignedTransaction(from, to, amount, nonce) ==
  LET data == [from |-> from, to |-> to, amount |-> amount, fee |-> TxFee,
               timestamp |-> 1, nonce |-> nonce]
  IN  [from |-> from, to |-> to, amount |-> amount, fee |-> TxFee,
       timestamp |-> 1, nonce |-> nonce,
       signature |-> signMessage(data, privateKeyOf(from))]

\* the transactions submitted: signed transfers between the two keys, and
\* one with a signature of 16 bytes
TxInputs ==
  {SignedTransaction(from, to, amount, nonce) :
     from \in HexKeys, to \in HexKeys, amount \in TxAmounts, nonce \in TxNonces}
  \cup {[SignedTransaction("pk-a", "pk-b", 5, 2) EXCEPT
           !.signature = [hex |-> Str("short"), bytes |-> 16]]}

LedgerNext ==
  \/ \E publicKey \in HexKeys : TxCreateAccount(publicKey, InitialBalance)
  \/ \E transaction \in TxInputs : TxValidate(transaction)
  \/ \E transaction \in TxInputs : TxProcess(transaction)

-----------------------------------------------------------------------------
(* ValidatorNode: block production from the transaction pool *)

\* processTransactionBatch(transactions) from transfer i on: the accounts,
\* the processed ids and the transfers that succeeded
RECURSIVE BatchFrom(_, _, _, _, _)
BatchFrom(transactions, i, acc, done, processed) ==
  IF i > Len(transactions)
  THEN [accounts |-> acc, processedTransactions |-> done, processed |-> processed]
  ELSE IF validateTransactionIn(acc, done, transactions[i])
       THEN BatchFrom(transactions, i + 1, applyTransaction(acc, transactions[i]),
                      done \cup {getTransactionId(transactions[i])},
                      Append(processed, transactions[i]))
       ELSE BatchFrom(transactions, i + 1, acc, done, processed)

processTransactionBatch(transactions) ==
  BatchFrom(transactions, 1, accounts, processedTransactions, <<>>)

\* clearProcessedFromPool(processed): the pool afterwards
clearProcessedFromPool(processed) ==
  SelectSeq(transactionPool,
            LAMBDA tx : \A i \in DOMAIN processed :
                          getTransactionId(processed[i]) # getTransactionId(tx))

\* the senders of the pooled transfers: one more than a block holds
\* transactions
PoolSenders == {SenderKeys[i] : i \in 1..(MaxTxPerBlock + 1)}

\* the transfers submitted to the node: one of each sender, its first
PoolInputs == {SignedTransaction(from, SelfKey, 1, 1) : from \in PoolSenders}

\* createAccount(publicKey, initialBalance) for a sender
PoolCreateAccount ==
  /\ handlers = <<>>
  /\ \E publicKey \in PoolSenders :
       /\ ~Has(accounts, publicKey)
       /\ TxCreateAccount(publicKey, InitialBalance)

\* submitTransaction(transaction) or handleTransactionMessage: addToPool of
\* a transaction that validateTransaction accepts
PoolSubmit ==
  /\ nodeRunning
  /\ handlers = <<>>
  /\ Len(transactionPool) <= MaxTxPerBlock
  /\ \E transaction \in PoolInputs :
       /\ validateTransaction(transaction)
       /\ transactionPool' = Append(transactionPool, transaction)
  /\ UNCHANGED <<accounts, processedTransactions, applied>>
  /\ UNCHANGED <<pohVars, chainVars, consVars, nodeVars, callVars>>

\* blockProductionInterval fires: processTransactionBatch on the pool, and
\* produceBlock up to await validateBlock, or to its return without a PoH
\* entry
PoolProduce ==
  /\ nodeRunning
  /\ handlers = <<>>
  /\ isReadyForConsensus
  /\ isCurrentLeader
  /\ Len(blockchain) < MaxChain
  /\ LET batch == processTransactionBatch(transactionPool)
         validTransactions == batch.processed
         pohEntry == entries[Len(entries)]
         nextSlot == consensusState.currentSlot + 1
         block == createBlock(validTransactions, pohEntry.hash, pohEntry.count,
                              SelfKey, SelfPrivateKey, nextSlot,
                              getEpochFromSlot(nextSlot), Undefined, 1)
     IN  /\ accounts' = batch.accounts
         /\ processedTransactions' = batch.processedTransactions
         /\ applied' = applied \o validTransactions
         /\ handlers' =
              IF entries = <<>> THEN handlers
              ELSE <<[id |-> 0,
                      message |-> createMessage("block", block, SelfPrivateKey),
                      pc |-> "poolValidate", isValid |-> FALSE, vote |-> Undefined,
                      validTransactions |-> validTransactions]>>
  /\ access' = [by |-> 0, touched |-> TRUE, others |-> {}]
  /\ UNCHANGED transactionPool
  /\ UNCHANGED <<nodeRunning, received, delivered, timers, sent, readyVars>>
  /\ UNCHANGED <<pohVars, chainVars, consVars, callVars>>

\* produceBlock after await validateBlock: addBlock, consensus.addBlock,
\* clearProcessedFromPool, poh.addEvent, then broadcast up to the await in
\* createMessage
PoolProduceApply ==
  /\ handlers # <<>>
  /\ handlers[1].pc = "poolValidate"
  /\ LET h == handlers[1]
         block == h.message.data
     IN  IF ~validateBlock(block)
         THEN /\ handlers' = Tail(handlers)
              /\ UNCHANGED <<pohVars, chainVars, consVars, transactionPool>>
         ELSE /\ lastCall' = "addBlock"
              /\ addResult' = addBlockAccepts(block)
              /\ blockchain' = IF addBlockAccepts(block)
                               THEN Append(blockchain, block) ELSE blockchain
              /\ UNCHANGED created
              /\ given' = Append(given, block)
              /\ epochBlocks' = addBlockIn(epochBlocks, block)
              /\ transactionPool' = clearProcessedFromPool(h.validTransactions)
              /\ eventQueue' = Append(eventQueue, createEvent("block", block.hash))
              /\ submitted' = submitted + 1
              /\ UNCHANGED <<currentHash, count, isRunning, tickInterval, entries,
                             liveTimers, timerSeq>>
              /\ UNCHANGED <<validators, votes, lockouts, consensusState,
                             leaderSchedules, prng>>
              /\ handlers' = Requeue([h EXCEPT !.pc = "produceBroadcast"])
  /\ access' = Accessed(TRUE)
  /\ UNCHANGED <<nodeRunning, received, delivered, timers, sent, readyVars>>
  /\ UNCHANGED <<callVars, accounts, processedTransactions, applied>>

PoolNext ==
  \/ NodeStart
  \/ NodeReadyTimeout
  \/ NodeFirstTick
  \/ PoolCreateAccount
  \/ PoolSubmit
  \/ PoolProduce
  \/ PoolProduceApply
  \/ NodeProduceSlot

-----------------------------------------------------------------------------
(* Specifications *)

\* every component as its constructor leaves it
Init ==
  /\ currentHash = Seed
  /\ count = 0
  /\ isRunning = FALSE
  /\ tickInterval = NoTimer
  /\ entries = <<>>
  /\ eventQueue = <<>>
  /\ liveTimers = {}
  /\ timerSeq = 0
  /\ submitted = 0
  /\ blockchain = <<>>
  /\ created = <<>>
  /\ lastCall = "none"
  /\ addResult = FALSE
  /\ validators = <<>>
  /\ votes = <<>>
  /\ lockouts = <<>>
  /\ consensusState = [currentSlot |-> 0, currentEpoch |-> 0,
                       leaderSchedule |-> <<>>, epochStartSlot |-> 0,
                       epochFinalHash |-> Undefined]
  /\ leaderSchedules = (0 :> [epoch |-> 0, schedule |-> <<>>, seed |-> Str("genesis")])
  /\ epochBlocks = (0 :> <<>>)
  /\ prng = <<>>
  /\ given = <<>>
  /\ nodeRunning = FALSE
  /\ handlers = <<>>
  /\ received = 0
  /\ delivered = {}
  /\ timers = NoTimers
  /\ sent = <<>>
  /\ access = [by |-> 0, touched |-> FALSE, others |-> {}]
  /\ isReadyForConsensus = FALSE
  /\ leaderSchedule = <<>>
  /\ call = [op |-> "none"]
  /\ accounts = <<>>
  /\ transactionPool = <<>>
  /\ processedTransactions = {}
  /\ applied = <<>>

SpecPoH == Init /\ [][PohNext]_vars

\* the clock with its interval timer firing as long as it is set
SpecClock == Init /\ [][PohNext]_vars /\ WF_vars(PohTick)

SpecChain == Init /\ [][ChainNext]_vars

SpecEpochs == Init /\ [][EpochsNext]_vars

SpecNode == Init /\ [][NodeNext]_vars

SpecSchedule == Init /\ [][ScheduleNext]_vars

SpecVoting == Init /\ [][VotingNext]_vars

SpecCluster == Init /\ [][ClusterNext]_vars

SpecVerify == Init /\ [][VerifyNext]_vars

SpecLedger == Init /\ [][LedgerNext]_vars

SpecFork == Init /\ [][ForkNext]_vars

SpecDelivery == Init /\ [][DeliveryNext]_vars

SpecAccept == Init /\ [][AcceptNext]_vars

SpecLeader == Init /\ [][LeaderNext]_vars

SpecStop == Init /\ [][StopNext]_vars

SpecPool == Init /\ [][PoolNext]_vars

-----------------------------------------------------------------------------
(* Claims about the clock *)

\* the runs of consecutive retained entries, as getEntries returns them
PohRuns ==
  {getEntries(f, l) : f \in 0..MaxTicks, l \in 0..(RetainLimit + 1)}

\* C1: verifySequence returns true on every run of consecutive entries the
\* clock produced (getEntries with any fromCount and limit).
C1_RoundTrip == \A run \in PohRuns : verifySequence(run)

\* digests an attacker can put in place of an entry's hash: recomputations
\* from any entry of the run with any count, and an unrelated value
ForgedDigests(run) ==
  {Sha256(PohHashInput(run[i].hash, n, run[k].events)) :
     i \in 1..Len(run), n \in 0..MaxTicks, k \in 1..Len(run)}
  \cup {Str("forged")}

\* C2: in a run of two or more consecutive entries, replacing the hash of any
\* single entry by a different value makes verifySequence return false, and so
\* does any change of one entry's count that breaks the +1 step.  (Runs of one
\* entry are left out: verifySequence accepts them by definition.)
C2_TamperDetected ==
  \A run \in PohRuns :
    Len(run) >= 2 =>
      \A p \in 1..Len(run) :
        /\ \A d \in ForgedDigests(run) \ {run[p].hash} :
             ~verifySequence([run EXCEPT ![p].hash = d])
        /\ \A c \in 0..(MaxTicks + 1) \ {run[p].count} :
             ~verifySequence([run EXCEPT ![p].count = c])

-----------------------------------------------------------------------------
(* Claims about the block pipeline *)

\* C3 as stated: validateBlock called right after any createBlock returns true.
C3_RoundTripAnyArgs ==
  lastCall = "createBlock" => validateBlock(created[1])

\* the created block links to the tip: previousHash was left out (or ''), or
\* the chain is empty, or the given previousHash is the tip's hash
C3_Linked ==
  Len(blockchain) = 0 \/ created[1].previousHash = getLatestBlockHash

\* C3 amended: validateBlock called right after createBlock returns true when
\* the leader is a 32-byte public key in hex and the block links to the tip,
\* whatever the transaction list (also one longer than the maximum).
C3_RoundTrip ==
  (lastCall = "createBlock" /\ HexByteLength(created[1].leader) = 32 /\ C3_Linked)
    => validateBlock(created[1])

\* a truncated block created on a non-empty chain validates
C3_Witness ==
  /\ lastCall = "createBlock"
  /\ Len(blockchain) > 0
  /\ HexByteLength(created[1].leader) = 32
  /\ C3_Linked
  /\ Len(created[1].transactions) = MaxTxPerBlock
  /\ validateBlock(created[1])

\* C4: every accepted block but the first has previousHash equal to the hash
\* of the block stored before it, and the chain changes only by addBlock
\* appending one block, which on a non-empty chain links to the tip.
C4_Linkage ==
  /\ [](\A i \in 2..Len(blockchain) :
          blockchain[i].previousHash = blockchain[i - 1].hash)
  /\ [][blockchain' # blockchain =>
          /\ Len(blockchain') = Len(blockchain) + 1
          /\ SubSeq(blockchain', 1, Len(blockchain)) = blockchain
          /\ Len(blockchain) > 0 =>
               blockchain'[Len(blockchain')].previousHash = getLatestBlock.hash]_vars

\* three linked blocks, the last addBlock having appended
C4_Witness ==
  Len(blockchain) >= 3 /\ lastCall = "addBlock" /\ addResult

\* C5: isValidChain returns true after any sequence of addBlock calls.
C5_ValidChain == isValidChain(blockchain)

\* a chain of two or more blocks on which an addBlock was just rejected
C5_Witness ==
  Len(blockchain) >= 2 /\ lastCall = "addBlock" /\ ~addResult

\* values a stored hash can be changed to
TamperHashes(chain) ==
  {Str("forged"), ZeroHash}
  \cup {chain[i].hash : i \in 1..Len(chain)}
  \cup {calculateBlockHash(chain[i]) : i \in 1..Len(chain)}

\* the chain with the stored hash of block p replaced by d
Tampered(chain, p, d) == [chain EXCEPT ![p].hash = d]

\* C6 as stated: on every non-empty chain, changing any one stored hash makes
\* isValidChain return false.
C6_TamperAnyChain ==
  \A p \in 1..Len(blockchain) :
    \A d \in TamperHashes(blockchain) \ {blockchain[p].hash} :
      ~isValidChain(Tampered(blockchain, p, d))

\* C6 amended: on every accepted chain of two or more blocks, changing any one
\* stored hash makes isValidChain return false.
C6_TamperDetected ==
  Len(blockchain) >= 2 =>
    \A p \in 1..Len(blockchain) :
      \A d \in TamperHashes(blockchain) \ {blockchain[p].hash} :
        ~isValidChain(Tampered(blockchain, p, d))

\* a chain of three blocks whose first block was stored with a wrong hash
C6_Witness ==
  /\ Len(blockchain) >= 3
  /\ blockchain[1].hash # calculateBlockHash(blockchain[1])
  /\ ~isValidChain(Tampered(blockchain, 1, calculateBlockHash(blockchain[1])))
  /\ ~isValidChain(Tampered(blockchain, Len(blockchain), Str("forged")))

-----------------------------------------------------------------------------
(* Epoch transitions: seed and schedule length *)

\* the blocks with slot in `epoch` given to the engine's addBlock so far, in
\* recording order
GivenInEpoch(epoch) ==
  SelectSeq(given, LAMBDA b : getEpochFromSlot(b.slot) = epoch)

\* the hash of the concatenated hashes of `blocks`, or the placeholder
FinalHashOf(epoch, blocks) ==
  IF Len(blocks) = 0
  THEN Sha256([emptyEpoch |-> epoch])
  ELSE Sha256([joined |-> [i \in 1..Len(blocks) |-> blocks[i].hash]])

\* C9: when updateSlot moves the engine out of epoch e, the seed stored for
\* epoch e+1 is the hash of the hashes, in recording order, of all blocks of
\* epoch e given to addBlock at any earlier time, or the placeholder if none.
C9_SeedCoversEpoch ==
  [][consensusState'.currentEpoch # consensusState.currentEpoch =>
       leaderSchedules'[consensusState.currentEpoch + 1].seed =
         FinalHashOf(consensusState.currentEpoch,
                     GivenInEpoch(consensusState.currentEpoch))]_vars

\* C10 as stated: every schedule stored for an epoch > 0 has SLOTS_PER_EPOCH
\* entries, whatever the active validator set was when it was generated.
C10_AnyActiveSet ==
  \A e \in DOMAIN leaderSchedules :
    e > 0 => Len(leaderSchedules[e].schedule) = SLOTS_PER_EPOCH

\* C10: a schedule generated at an epoch transition has SLOTS_PER_EPOCH
\* entries when at least one validator is active at generation time, and is
\* empty when none is.
C10_NonEmptyActiveSet ==
  [][consensusState'.currentEpoch # consensusState.currentEpoch =>
       LET schedule == leaderSchedules'[consensusState'.currentEpoch].schedule
       IN  IF getActiveValidators = {}
           THEN schedule = <<>>
           ELSE Len(schedule) = SLOTS_PER_EPOCH]_vars

\* a schedule of epoch 2 generated with two active validators, both leading
C10_Witness ==
  /\ Has(leaderSchedules, 2)
  /\ Len(leaderSchedules[2].schedule) = SLOTS_PER_EPOCH
  /\ {leaderSchedules[2].schedule[i] : i \in 1..SLOTS_PER_EPOCH} = ValidatorKeys

-----------------------------------------------------------------------------
(* The node's chain and its message handlers *)

\* C7: each block accepted into the node's chain has a pohCount greater than
\* or equal to the pohCount of every block accepted before it.
C7_PohCountMonotone ==
  \A i \in 1..Len(blockchain) : \A j \in 1..Len(blockchain) :
    i < j => blockchain[i].pohCount <= blockchain[j].pohCount

\* C8: a handler step that reads or mutates the chain or the consensus
\* tables runs only while no other inbound-message handler of the node has
\* started and not yet finished.
C8_OneAtATime == access.touched => access.others = {}

-----------------------------------------------------------------------------
(* Claims about generated schedules *)

\* the validators of a list
Members(list) == {list[i] : i \in 1..Len(list)}

\* the number of slots of `schedule` led by v
SlotsOf(schedule, v) == Cardinality({k \in 1..Len(schedule) : schedule[k] = v})

\* C11: for 1 <= n <= SLOTS_PER_EPOCH active validators, each of them appears
\* at least once in the schedule generated for an epoch > 0.
C11_EveryValidatorLeads ==
  (call.op = "generateLeaderSchedule"
   /\ 1 <= Len(call.active) /\ Len(call.active) <= SLOTS_PER_EPOCH)
  => \A v \in Members(call.active) : SlotsOf(call.schedule, v) >= 1

ActiveVoters(blockHash) ==
  {pk \in DOMAIN validators :
     /\ validators[pk].isActive
     /\ \E i \in DOMAIN getVotesForBlock(blockHash) :
          getVotesForBlock(blockHash)[i].validator = pk}

\* C14: hasSupermajority(blockHash) holds exactly when three times the active
\* stake of the validators with a recorded vote for the block exceeds twice
\* the total active stake: it is false at two thirds exactly and when the
\* total is 0
C14_StrictTwoThirds ==
  \A blockHash \in VoteHashes :
    hasSupermajority(blockHash)
      <=> 3 * StakeOfKeys(ActiveVoters(blockHash))
            > 2 * StakeOfKeys(DOMAIN validators)

\* a block holds exactly two thirds of a positive total, and is refused
C14_Witness ==
  \E blockHash \in VoteHashes :
    /\ StakeOfKeys(DOMAIN validators) > 0
    /\ 3 * StakeOfKeys(ActiveVoters(blockHash)) = 2 * StakeOfKeys(DOMAIN validators)
    /\ ~hasSupermajority(blockHash)

\* this step is a call of op
IsCall(op) == call' # call /\ call'.op = op

\* the lockout table of publicKey holds an entry whose expiry exceeds the
\* current slot by more than 2
LockedOut(publicKey) ==
  /\ Has(lockouts, publicKey)
  /\ \E slot \in DOMAIN lockouts[publicKey] :
       lockouts[publicKey][slot] - consensusState.currentSlot > 2

\* publicKey is a known, active validator
KnownActive(publicKey) ==
  Has(validators, publicKey) /\ validators[publicKey].isActive

\* C15: addVote, validateVote and createVote deny the vote of a known (for
\* addVote and validateVote: active) validator exactly when its lockout table
\* has an entry whose expiry exceeds the current slot by more than 2; a
\* denied addVote returns false and leaves the votes and the lockouts as
\* they were
C15_LockoutDenial ==
  [][/\ IsCall("addVote") =>
          /\ KnownActive(call'.vote.validator) =>
               (~call'.result <=> LockedOut(call'.vote.validator))
          /\ ~call'.result => votes' = votes /\ lockouts' = lockouts
     /\ IsCall("validateVote") /\ KnownActive(call'.vote.validator) =>
          (~call'.result <=> LockedOut(call'.vote.validator))
     /\ IsCall("createVote") /\ Has(validators, call'.validator) =>
          (~call'.result.ok <=> LockedOut(call'.validator))]_vars

\* addVote has denied the vote of a known, active validator that is locked out
C15_Witness ==
  /\ call.op = "addVote"
  /\ ~call.result
  /\ KnownActive(call.vote.validator)
  /\ LockedOut(call.vote.validator)

\* the entries of publicKey's lockout table with an expiry after the
\* current slot
LiveEntries(publicKey) ==
  IF Has(lockouts, publicKey)
  THEN {slot \in DOMAIN lockouts[publicKey] :
          lockouts[publicKey][slot] > consensusState.currentSlot}
  ELSE {}

OneVoteEach(vs) ==
  \A i, j \in DOMAIN vs : vs[i].validator = vs[j].validator => i = j

\* C17: the votes of a block hash hold at most one vote per validator: a new
\* vote of the same validator for the same hash replaces the old one at its
\* place, another one is appended; each accepted vote sets the validator's
\* lockout entry for the current slot to the current slot plus vote.lockout
C17_OneVotePerValidator ==
  [][/\ \A blockHash \in DOMAIN votes' : OneVoteEach(votes'[blockHash])
     /\ IsCall("addVote") /\ call'.result =>
          LET vote == call'.vote
              old == getVotesForBlock(vote.blockHash)
              new == votes'[vote.blockHash]
              at == {i \in DOMAIN old : old[i].validator = vote.validator}
          IN  /\ at # {} =>
                   /\ Len(new) = Len(old)
                   /\ \A i \in DOMAIN old :
                        new[i] = IF i \in at THEN vote ELSE old[i]
              /\ at = {} => new = Append(old, vote)
              /\ \A blockHash \in DOMAIN votes \ {vote.blockHash} :
                   votes'[blockHash] = votes[blockHash]
              /\ lockouts'[vote.validator][consensusState.currentSlot]
                   = consensusState.currentSlot + vote.lockout]_vars

\* a validator's second vote for the only block hash voted on has replaced
\* its first
C17_Witness ==
  /\ call.op = "addVote"
  /\ call.result
  /\ DOMAIN votes = {call.vote.blockHash}
  /\ votes[call.vote.blockHash] = <<call.vote>>
  /\ call.vote.lockout = 2

-----------------------------------------------------------------------------
(* Claims about the node: own blocks, announcements, leaders *)

\* the hashes of the blocks taken into consensus whose leader is this node
SelfLedHashes ==
  {given[i].hash : i \in {j \in DOMAIN given : given[j].leader = SelfKey}}

\* vote is a vote of this node for a block this node leads
IsSelfVote(vote) ==
  /\ vote # Undefined
  /\ vote.validator = SelfKey
  /\ vote.blockHash \in SelfLedHashes

\* C18: the node never creates, records or broadcasts a vote of its own for a
\* block whose leader is its own public key, whether it produced the block or
\* received it in a block message
C18_NoSelfVote ==
  /\ \A i \in DOMAIN handlers : ~IsSelfVote(handlers[i].vote)
  /\ \A blockHash \in DOMAIN votes :
       \A i \in DOMAIN votes[blockHash] : ~IsSelfVote(votes[blockHash][i])
  /\ \A i \in DOMAIN sent : sent[i].type = "vote" => ~IsSelfVote(sent[i].data)

\* the node has produced a block and taken in one received under its own
\* name, and has voted for a block of the peer and broadcast that vote
C18_Witness ==
  /\ \E i \in DOMAIN sent : sent[i].type = "block"
  /\ Cardinality(SelfLedHashes) >= 2
  /\ \E i \in DOMAIN sent :
       /\ sent[i].type = "vote"
       /\ sent[i].data.validator = SelfKey
       /\ sent[i].data \in {votes[sent[i].data.blockHash][j] :
                              j \in DOMAIN getVotesForBlock(sent[i].data.blockHash)}

\* C19: handling a validator_info message for a public key that was announced
\* to this node before leaves the validator table, the node's leader schedule
\* and its readiness flag unchanged and sends no response, whatever the stake
\* and isActive flag of the announcement
C19_AnnounceIdempotent ==
  [][(/\ handlers # <<>>
      /\ handlers[1].pc = "validateMessage"
      /\ handlers[1].message.type = "validator_info"
      /\ Has(validators, handlers[1].message.data.publicKey)
      /\ handlers' # handlers) =>
       /\ validators' = validators
       /\ leaderSchedule' = leaderSchedule
       /\ isReadyForConsensus' = isReadyForConsensus
       /\ handlers' = Tail(handlers)
       /\ sent' = sent]_vars

\* the leaders getLeaderForSlot gives for the slots of epoch
LeadersOfEpoch(epoch) ==
  {getLeaderForSlot(slot) :
     slot \in (epoch * SLOTS_PER_EPOCH)..(epoch * SLOTS_PER_EPOCH + SLOTS_PER_EPOCH - 1)}

\* C20: when the active validator set has changed during an epoch through an
\* announcement, the leaders getLeaderForSlot gives for the epoch are those
\* of the new set by the time the epoch ends, in epoch 0 and in the epochs
\* after it
C20_RederivedBeforeBoundary ==
  [][(/\ consensusState'.currentEpoch # consensusState.currentEpoch
      /\ getEpochFromSlot(consensusState.currentSlot) = consensusState.currentEpoch
      /\ getActiveValidators # {}) =>
       LeadersOfEpoch(consensusState.currentEpoch) = getActiveValidators]_vars

-----------------------------------------------------------------------------
(* Claims about block signatures *)

\* the signature the leader of block b makes of the block's hash
LeaderSignature(b) == signMessage(b.hash, privateKeyOf(b.leader))

\* C21: validateBlock returns false for every block whose signature is not
\* the one made of the block's hash with the private key of the block's
\* leader, such as one made with another key or 32 arbitrary bytes
C21_ForeignSignatureRejected ==
  (call.op = "validateBlock" /\ call.block.signature # LeaderSignature(call.block))
    => ~call.result

-----------------------------------------------------------------------------
(* Claims about the clock: events, sequence numbers, start and stop *)

\* the interval timer is set and will fire again
TickPending == liveTimers # {} /\ count < MaxTicks

\* C22: every event passed to addEvent is mixed into exactly one entry, the
\* first one a tick produces after the submission: addEvent puts it behind
\* the events waiting and touches no entry, a tick puts all waiting events in
\* their order into its entry and leaves none waiting, no other step touches
\* the waiting events or the entries, and while the clock ticks the waiting
\* events are eventually mixed
C22_EventMixedOnce ==
  /\ [][/\ submitted' # submitted =>
             /\ Len(eventQueue') = Len(eventQueue) + 1
             /\ SubSeq(eventQueue', 1, Len(eventQueue)) = eventQueue
             /\ entries' = entries
        /\ count' # count =>
             LET kept == SubSeq(entries', 1, Len(entries') - 1)
             IN  /\ entries' # <<>>
                 /\ entries'[Len(entries')].events = eventQueue
                 /\ eventQueue' = <<>>
                 /\ kept = SliceLast(entries, Len(kept))
        /\ count' = count => entries' = entries
        /\ (count' = count /\ submitted' = submitted) => eventQueue' = eventQueue]_vars
  /\ (eventQueue # <<>>) ~> (eventQueue = <<>> \/ ~TickPending)

\* two events submitted between two ticks are in the entry of the second tick
C22_Witness ==
  /\ Len(entries) >= 2
  /\ Len(entries[Len(entries)].events) = 2
  /\ entries[Len(entries)].events[1] # entries[Len(entries)].events[2]
  /\ eventQueue = <<>>

\* C23: the sequence numbers of the retained entries increase by exactly 1
\* from each entry to the next, also after trimming and across stop and
\* start, and the clock's count is the last produced entry's number plus 1
C23_ConsecutiveCounts ==
  /\ \A i \in 2..Len(entries) : entries[i].count = entries[i - 1].count + 1
  /\ entries # <<>> => count = entries[Len(entries)].count + 1
  /\ entries = <<>> => count = 0

\* the buffer has been trimmed and the clock restarted since
C23_Witness ==
  /\ entries # <<>>
  /\ Len(entries) < count
  /\ timerSeq >= 2
  /\ isRunning

\* C24: start while running and stop while stopped change nothing, at most
\* one interval timer exists at any time, and from stop to the next start no
\* entry is produced and count, current hash and entries stay as they are
C24_StartStop ==
  [][/\ Cardinality(liveTimers') <= 1
     /\ isRunning' <=> liveTimers' # {}
     /\ ~isRunning' =>
          /\ count' = count
          /\ currentHash' = currentHash
          /\ entries' = entries
     /\ (isRunning' = isRunning) =>
          /\ liveTimers' = liveTimers
          /\ tickInterval' = tickInterval
          /\ timerSeq' = timerSeq]_vars

\* the clock has ticked, was stopped, started and stopped again
C24_Witness ==
  /\ ~isRunning
  /\ timerSeq >= 2
  /\ count > 0

-----------------------------------------------------------------------------
(* Claims about transactions *)

\* this step is a call of validateTransaction or processTransaction
IsTxCall == call' # call /\ call'.op \in {"validateTransaction", "processTransaction"}

\* C25: validateTransaction, and so processTransaction, returns false for
\* every transaction whose nonce is not the current nonce of the sender's
\* account plus 1, whether its signature is valid or not
C25_NonceChecked ==
  [][(/\ IsTxCall
      /\ Has(accounts, call'.transaction.from)
      /\ call'.transaction.nonce # accounts[call'.transaction.from].nonce + 1)
       => ~call'.result]_vars

\* a correctly signed transfer that the sender could pay was refused for its
\* nonce
C25_Witness ==
  /\ call.op = "processTransaction"
  /\ ~call.result
  /\ Has(accounts, call.transaction.from)
  /\ accounts[call.transaction.from].balance >= call.transaction.amount + call.transaction.fee
  /\ call.transaction.signature.bytes = 32
  /\ applied = <<>>
  /\ call.transaction.nonce = 2

\* t and u have the same sender, recipient, nonce and timestamp
SameTransfer(t, u) ==
  /\ t.from = u.from
  /\ t.to = u.to
  /\ t.nonce = u.nonce
  /\ t.timestamp = u.timestamp

\* C26: once processTransaction has returned true for a transaction, every
\* later validateTransaction or processTransaction of a transaction with the
\* same sender, recipient, nonce and timestamp returns false and changes no
\* account, so no transfer is applied twice
C26_NoReplay ==
  [][/\ (IsTxCall /\ \E i \in DOMAIN applied : SameTransfer(applied[i], call'.transaction))
          => (~call'.result /\ accounts' = accounts)
     /\ \A i, j \in DOMAIN applied' :
          SameTransfer(applied'[i], applied'[j]) => i = j]_vars

\* a transfer was applied, the sender's account created anew, so that the
\* nonce fits again, and the same transfer was refused
C26_Witness ==
  /\ call.op = "processTransaction"
  /\ ~call.result
  /\ \E i \in DOMAIN applied : SameTransfer(applied[i], call.transaction)
  /\ Has(accounts, call.transaction.from)
  /\ accounts[call.transaction.from].nonce + 1 = call.transaction.nonce
  /\ accounts[call.transaction.from].balance >= call.transaction.amount + call.transaction.fee

\* the balance of publicKey in the accounts acc, 0 without an account
BalanceIn(acc, publicKey) == IF Has(acc, publicKey) THEN acc[publicKey].balance ELSE 0

\* C27: a successful processTransaction of amount a with fee f takes a + f
\* from the sender's balance, sets the sender's nonce to its nonce + 1, adds
\* a to the recipient's balance (the recipient's account being created with
\* balance 0 when there is none) and changes no other account; with sender
\* and recipient the same account the net change is -f
C27_TransferAmounts ==
  [][(call' # call /\ call'.op = "processTransaction" /\ call'.result) =>
       LET t == call'.transaction
       IN  /\ DOMAIN accounts' = DOMAIN accounts \cup {t.to}
           /\ accounts'[t.from].nonce = accounts[t.from].nonce + 1
           /\ IF t.from = t.to
              THEN accounts'[t.from].balance = accounts[t.from].balance - t.fee
              ELSE /\ accounts'[t.from].balance
                        = accounts[t.from].balance - (t.amount + t.fee)
                   /\ accounts'[t.to].balance = BalanceIn(accounts, t.to) + t.amount
                   /\ accounts'[t.to].nonce
                        = IF Has(accounts, t.to) THEN accounts[t.to].nonce ELSE 0
           /\ \A pk \in DOMAIN accounts \ {t.from, t.to} : accounts'[pk] = accounts[pk]]_vars

\* a transfer to an account that did not exist, and a transfer of an account
\* to itself, have been applied
C27_Witness ==
  /\ Len(applied) = 2
  /\ applied[1].from # applied[1].to
  /\ applied[2].from = applied[2].to
  /\ accounts[applied[1].to].balance = applied[1].amount
  /\ accounts[applied[1].from].balance
       = InitialBalance - applied[1].amount - applied[1].fee - applied[2].fee

-----------------------------------------------------------------------------
(* Claims about fork choice *)

\* C28: for a non-empty list of candidate blocks selectFork returns the hash
\* of the first candidate whose voting stake is the greatest of the list,
\* also when the greatest is 0, and null only for the empty list
C28_FirstOfGreatestStake ==
  call.op = "selectFork" =>
    LET c == call.candidates
    IN  IF c = <<>> THEN call.result = NoBlock
        ELSE \E i \in DOMAIN c :
               /\ \A j \in DOMAIN c :
                    calculateStakeWeight(c[j].hash) <= calculateStakeWeight(c[i].hash)
               /\ \A j \in 1..(i - 1) :
                    calculateStakeWeight(c[j].hash) < calculateStakeWeight(c[i].hash)
               /\ call.result = c[i].hash

-----------------------------------------------------------------------------
(* Claims about the node's handling of delivered blocks *)

\* handleBlockMessage has validated a block of another validator and goes on
\* to voteOnBlock, this node being a registered validator
VotingOnBlock ==
  /\ handlers # <<>>
  /\ handlers[1].pc = "validated"
  /\ handlers[1].isValid
  /\ votesOnBlock(handlers[1].message.data)
  /\ Has(validators, SelfKey)

\* C29: for every sequence of validated blocks a node receives from other
\* validators, with the slot updates they cause, createVote in voteOnBlock
\* is never refused by the lockout rule
C29_NoLockoutFailure ==
  [][VotingOnBlock => canVoteIn(lockouts', consensusState'.currentSlot, SelfKey)]_vars

\* every linked block has been delivered and every handler has returned
DeliverySettled == delivered = LinkedBlocks /\ handlers = <<>>

\* the handler that runs next is for a block the chain already holds, put
\* there by the handler of an earlier message
DuplicateHandled ==
  /\ handlers # <<>>
  /\ handlers[1].pc \in {"validateMessage", "validateBlock", "validated"}
  /\ \E i \in DOMAIN blockchain : blockchain[i] = handlers[1].message.data

\* C30: chain-linked blocks delivered as block messages in any order and with
\* any duplication, each at least once, leave the node with each block in its
\* chain once and in previousHash order, as in-order single delivery does;
\* and handling a duplicate of a block already in the chain changes neither
\* the chain nor consensus state nor votes
C30_DeliveryTolerated ==
  /\ [](DeliverySettled => blockchain = <<Linked1, Linked2>>)
  /\ [][DuplicateHandled => UNCHANGED <<blockchain, consVars>>]_vars

-----------------------------------------------------------------------------
(* Claims about addBlock *)

\* the checks the claim names, for the block given to addBlock
C31_Passes(block) ==
  \/ Len(blockchain) = 0
  \/ /\ calculateBlockHash(block) = block.hash
     /\ block.previousHash = blockchain[Len(blockchain)].hash

\* C31: addBlock appends the block and returns true if and only if the chain
\* is empty or the hash recomputed from the block's fields is block.hash and
\* block.previousHash is the tip's hash; otherwise it returns false and
\* leaves the chain as it is; signature and transaction count play no part
C31_AddBlockIff ==
  [][lastCall' = "addBlock" =>
       IF C31_Passes(call'.block)
       THEN addResult' /\ blockchain' = Append(blockchain, call'.block)
       ELSE ~addResult' /\ blockchain' = blockchain]_vars

\* on a chain of one block or more addBlock has taken a block whose
\* signature validateBlock refuses, and then one with too many transactions
C31_Witness ==
  /\ Len(blockchain) >= 3
  /\ lastCall = "addBlock" /\ addResult
  /\ ~verifySignature(blockchain[2].hash, blockchain[2].signature, blockchain[2].leader)
  /\ Len(call.block.transactions) > MaxTxPerBlock

-----------------------------------------------------------------------------
(* Claims about the slot and the epoch *)

\* C32: the current slot only advances: after any sequence of updateSlot
\* calls currentSlot is greater than or equal to every value it had before
C32_SlotOnlyAdvances ==
  [][consensusState'.currentSlot >= consensusState.currentSlot]_vars

\* C33: after every updateSlot call no validator's lockout table holds an
\* entry whose expiry is less than or equal to the current slot, and every
\* entry whose expiry is greater than the current slot is still there with
\* the same key and expiry
C33_LockoutCleanup ==
  [][consensusState' # consensusState =>
       /\ DOMAIN lockouts' = DOMAIN lockouts
       /\ \A pk \in DOMAIN lockouts :
            /\ \A sl \in DOMAIN lockouts'[pk] :
                 lockouts'[pk][sl] > consensusState'.currentSlot
            /\ \A sl \in DOMAIN lockouts[pk] :
                 lockouts[pk][sl] > consensusState'.currentSlot =>
                   sl \in DOMAIN lockouts'[pk] /\ lockouts'[pk][sl] = lockouts[pk][sl]]_vars

\* at slot 1 the entry of a vote of slot 0 with lockout 1 is gone and that
\* of a vote of slot 0 with lockout 3 is kept
C33_Witness ==
  /\ consensusState.currentSlot = 1
  /\ Has(lockouts, "pk-a") /\ lockouts["pk-a"] = <<>>
  /\ \E h \in DOMAIN votes : \E i \in DOMAIN votes[h] :
       votes[h][i].validator = "pk-a" /\ votes[h][i].lockout = 1
  /\ Has(lockouts, "pk-b") /\ DOMAIN lockouts["pk-b"] = {0}
  /\ lockouts["pk-b"][0] = LongLockout

\* the number of active validators whose public key sorts before publicKey
C34_Rank(publicKey) ==
  Cardinality({k \in getActiveValidators :
                 \E i, j \in DOMAIN KeyOrder :
                   KeyOrder[i] = k /\ KeyOrder[j] = publicKey /\ i < j})

C35_EpochFollowsSlot ==
  [][consensusState' # consensusState =>
       /\ consensusState'.currentEpoch = getEpochFromSlot(consensusState'.currentSlot)
       /\ Has(leaderSchedules', consensusState'.currentEpoch)
       /\ getActiveValidators # {} =>
            (getLeaderForSlot(consensusState.currentSlot))' # Null]_vars

-----------------------------------------------------------------------------
(* Claims about the coordinator: leaders, accepted blocks, transactions *)

\* C36: every block a node produces, and every block it accepts into its
\* chain from a peer, names as leader the validator that getLeaderForSlot
\* gives for the block's own slot at the time of production or acceptance
C36_ScheduledLeader ==
  [][blockchain' # blockchain =>
       \A i \in (DOMAIN blockchain') \ (DOMAIN blockchain) :
         blockchain'[i].leader = getLeaderForSlot(blockchain'[i].slot)]_vars

\* C37: a node records a block in the consensus engine's epoch blocks, moves
\* its slot to the block's slot and votes on it only if BlockProducer.addBlock
\* appended that block to the node's chain, also when two block messages
\* that extend the same tip are validated while both are in flight
C37_OnlyAcceptedConsumed ==
  /\ [][given' # given =>
          /\ addResult'
          /\ blockchain' = Append(blockchain, given'[Len(given')])]_vars
  /\ [][consensusState' # consensusState => blockchain' # blockchain]_vars
  /\ [](\A h \in DOMAIN votes : \E i \in DOMAIN blockchain : blockchain[i].hash = h)

\* C38: after stop() has returned the node never produces a block nor
\* appends one to its chain, whichever start-up timers were pending when
\* stop was called
C38_StopEffective ==
  [][timers.stopped =>
       /\ blockchain' = blockchain
       /\ handlers' # handlers => handlers = <<>> /\ handlers' = <<>>]_vars

\* the transaction is in a block of the node's chain
C39_InChain(transaction) ==
  \E i \in DOMAIN blockchain : \E j \in DOMAIN blockchain[i].transactions :
    blockchain[i].transactions[j] = transaction

\* C39: every transaction a leader applies to its account state while
\* producing a block is contained in the block it then appends to its chain:
\* once produceBlock has returned, no transaction is applied to balances or
\* gone from the pool as processed without being in an accepted block, for
\* every pool size
C39_AppliedInBlock ==
  handlers = <<>> => \A i \in DOMAIN applied : C39_InChain(applied[i])

\* the sender's account is unknown
C40_UnknownSender(transaction) == ~Has(accounts, transaction.from)

\* the sender cannot pay amount and fee
C40_Unpaid(transaction) ==
  /\ Has(accounts, transaction.from)
  /\ accounts[transaction.from].balance < transaction.amount + transaction.fee

\* the nonce is not the sender's nonce + 1
C40_WrongNonce(transaction) ==
  /\ Has(accounts, transaction.from)
  /\ transaction.nonce # accounts[transaction.from].nonce + 1

\* the transaction was processed before
C40_Replayed(transaction) == getTransactionId(transaction) \in processedTransactions

\* the signature is one that verifySignature refuses
C40_BadSignature(transaction) ==
  ~verifySignature(transactionData(transaction), transaction.signature,
                   transaction.from)

====
